---- MODULE Spec2Model ----
(***************************************************************************)
(* Verification model of the birkland/ocfl filesystem driver: the object   *)
(* session (Open / Put / Commit), the inventory model, the durable-write   *)
(* helpers, the scope walker and the cp command that drives a session.     *)
(***************************************************************************)
EXTENDS Integers, Sequences, FiniteSets, TLC

(* ------------------------------ bounds --------------------------------- *)
\* highest version number a session may stage
MaxVersion == 2
\* Put calls made in one behaviour
MaxPuts == 2
\* Commit calls made in one behaviour
MaxCommits == 2
\* sessions opened in one behaviour
MaxSessions == 2
\* head version number of the long-lived object some behaviours start from
FixtureHead == 10

(* --------------------------- fixed vocabularies ------------------------ *)
Workers == {"w1", "w2"}
LPaths == {"a", "b"}
Contents == {"c1", "c2"}
CommitMsgs == {"m1"}
\* ocfl.NEW and ocfl.HEAD, the version sentinels of ocfl.Options
VersionNEW == <<"n", "e", "w">>
VersionHEAD == <<>>

\* sha512 of a content, hex encoded: distinct contents, distinct digests
DigestOf(c) == IF c = "c1" THEN "d1" ELSE "d2"
Digests == {DigestOf(c) : c \in Contents}

(* ------------------- metadata.VersionID (inventory.go) ----------------- *)
Digit == <<"0", "1", "2", "3", "4", "5", "6", "7", "8", "9">>
IsDigit(c) == \E i \in 1..10 : Digit[i] = c
DigitVal(c) == (CHOOSE i \in 1..10 : Digit[i] = c) - 1

RECURSIVE TrimLeftV(_)
\* strings.TrimLeft(s, "v"): drops every leading 'v'
TrimLeftV(s) == IF s # <<>> /\ Head(s) = "v" THEN TrimLeftV(Tail(s)) ELSE s

RECURSIVE DigitsVal(_, _)
DigitsVal(s, acc) ==
  IF s = <<>> THEN acc ELSE DigitsVal(Tail(s), 10 * acc + DigitVal(Head(s)))

\* VersionID.Int: the value is 0 when parsing fails
IntOf(v) ==
  LET
    \* strconv.ParseInt(s, 10, 64): optional sign, then one or more digits
    ParseInt(s) ==
      LET signed == s # <<>> /\ Head(s) \in {"+", "-"}
          body == IF signed THEN Tail(s) ELSE s
          ok == body # <<>> /\ \A i \in 1..Len(body) : IsDigit(body[i])
          mag == IF ok THEN DigitsVal(body, 0) ELSE 0
      IN [ok |-> ok,
          val |-> IF ~ok THEN 0 ELSE IF signed /\ Head(s) = "-" THEN 0 - mag ELSE mag]
  IN
  ParseInt(TrimLeftV(v))

\* VersionID.Valid
Valid(v) == Len(v) >= 2 /\ v[1] = "v" /\ IntOf(v).ok /\ IntOf(v).val > 0

RECURSIVE DecDigits(_)
DecDigits(n) ==
  IF n < 10 THEN <<Digit[n + 1]>> ELSE DecDigits(n \div 10) \o <<Digit[(n % 10) + 1]>>

RECURSIVE PadLeft(_, _)
PadLeft(s, width) == IF Len(s) >= width THEN s ELSE PadLeft(<<"0">> \o s, width)

\* fmt.Sprintf("v%0<width>d", n); width 0 is the plain "v%d"
FormatVersion(n, width) == <<"v">> \o PadLeft(DecDigits(n), width)

\* Increment that formats every result without padding
Increment_unpadded(v) ==
  IF ~Valid(v) THEN [ok |-> FALSE, id |-> <<>>]
  ELSE [ok |-> TRUE, id |-> FormatVersion(IntOf(v).val + 1, 0)]

\* VersionID.Increment
Increment(v) ==
  IF ~Valid(v) THEN [ok |-> FALSE, id |-> <<>>]
  ELSE LET width == IF v[2] = "0" THEN Len(v) - 1 ELSE 0
       IN [ok |-> TRUE, id |-> FormatVersion(IntOf(v).val + 1, width)]

V1 == <<"v", "1">>
\* every version directory name the bounded model can create
AllVids == {FormatVersion(n, 0) : n \in 1..(IF MaxVersion > FixtureHead THEN MaxVersion ELSE FixtureHead)}
\* the object root directory, and the directories that hold an inventory
RootDir == <<".">>
Dirs == {RootDir} \cup AllVids
PhysPaths == [ver : AllVids, lp : LPaths]

\* an absent content file
NoFile == [data |-> "none", st |-> "absent", owner |-> "none"]

(* ---------------------- metadata.Inventory (inventory.go) -------------- *)
EmptyMap == [d \in {} |-> <<>>]
Range(f) == {f[i] : i \in DOMAIN f}

\* metadata.NewInventory: head v1, one version without commit metadata
NewInventory ==
  [Head |-> V1, Manifest |-> EmptyMap,
   Versions |-> (V1 :> [State |-> EmptyMap, meta |-> "unset"])]

\* index: path -> digest over a digest -> paths map; fails on a path that
\* is listed under two digests
index(m) ==
  LET paths == UNION {Range(m[d]) : d \in DOMAIN m}
      clash == \E d1, d2 \in DOMAIN m : d1 # d2 /\ Range(m[d1]) \cap Range(m[d2]) # {}
  IN [ok |-> ~clash,
      idx |-> [p \in paths |-> CHOOSE d \in DOMAIN m : p \in Range(m[d])]]

\* addPathMapping that stores the path as the digest's only path
addPathMapping_replace(m, path, digest) ==
  IF digest \in DOMAIN m THEN [m EXCEPT ![digest] = <<path>>]
  ELSE m @@ (digest :> <<path>>)

\* addPathMapping: appends the path to the digest's list
addPathMapping(m, path, digest) ==
  IF digest \in DOMAIN m THEN [m EXCEPT ![digest] = Append(@, path)]
  ELSE m @@ (digest :> <<path>>)

\* AddFile that adds both mappings whether or not the paths are there
AddFile_alwaysMap(inv, logicalPath, relativePath, digest) ==
  LET stateIndex == index(inv.Versions[inv.Head].State)
      manifestIndex == index(inv.Manifest)
  IN IF ~stateIndex.ok \/ ~manifestIndex.ok
     THEN [ok |-> FALSE, err |-> "error indexing", inv |-> inv]
     ELSE IF logicalPath \in DOMAIN stateIndex.idx /\ stateIndex.idx[logicalPath] # digest
       THEN [ok |-> FALSE, err |-> "conflict", inv |-> inv]
     ELSE IF /\ relativePath \in DOMAIN manifestIndex.idx
             /\ manifestIndex.idx[relativePath] # digest
       THEN [ok |-> FALSE, err |-> "conflict", inv |-> inv]
     ELSE [ok |-> TRUE, err |-> "none",
           inv |-> [inv EXCEPT
                      !.Versions[inv.Head].State = addPathMapping(@, logicalPath, digest),
                      !.Manifest = addPathMapping(@, relativePath, digest)]]

\* AddFile without the check of the physical path against the Manifest
AddFile_noManifestCheck(inv, logicalPath, relativePath, digest) ==
  LET stateIndex == index(inv.Versions[inv.Head].State)
      manifestIndex == index(inv.Manifest)
      stateConflict == logicalPath \in DOMAIN stateIndex.idx
      manifestConflict == relativePath \in DOMAIN manifestIndex.idx
  IN IF ~stateIndex.ok \/ ~manifestIndex.ok
     THEN [ok |-> FALSE, err |-> "error indexing", inv |-> inv]
     ELSE IF stateConflict /\ stateIndex.idx[logicalPath] # digest
       THEN [ok |-> FALSE, err |-> "conflict", inv |-> inv]
     ELSE
       LET inv1 == IF stateConflict THEN inv
                   ELSE [inv EXCEPT !.Versions[inv.Head].State =
                                      addPathMapping(@, logicalPath, digest)]
           inv2 == IF manifestConflict THEN inv1
                   ELSE [inv1 EXCEPT !.Manifest =
                                      addPathMapping(@, relativePath, digest)]
       IN [ok |-> TRUE, err |-> "none", inv |-> inv2]

\* AddFile that registers the logical path in the State and leaves the
\* Manifest alone
AddFile_stateOnly(inv, logicalPath, relativePath, digest) ==
  LET stateIndex == index(inv.Versions[inv.Head].State)
      manifestIndex == index(inv.Manifest)
      stateConflict == logicalPath \in DOMAIN stateIndex.idx
      manifestConflict == relativePath \in DOMAIN manifestIndex.idx
  IN IF ~stateIndex.ok \/ ~manifestIndex.ok
     THEN [ok |-> FALSE, err |-> "error indexing", inv |-> inv]
     ELSE IF stateConflict /\ stateIndex.idx[logicalPath] # digest
       THEN [ok |-> FALSE, err |-> "conflict", inv |-> inv]
     ELSE IF manifestConflict /\ manifestIndex.idx[relativePath] # digest
       THEN [ok |-> FALSE, err |-> "conflict", inv |-> inv]
     ELSE [ok |-> TRUE, err |-> "none",
           inv |-> IF stateConflict THEN inv
                   ELSE [inv EXCEPT !.Versions[inv.Head].State =
                                      addPathMapping(@, logicalPath, digest)]]

\* AddFile that does not look the logical path up in the head version's
\* State: the path is added under the digest whatever the State holds
AddFile_noStateCheck(inv, logicalPath, relativePath, digest) ==
  LET manifestIndex == index(inv.Manifest)
      manifestConflict == relativePath \in DOMAIN manifestIndex.idx
  IN IF ~manifestIndex.ok
     THEN [ok |-> FALSE, err |-> "error indexing", inv |-> inv]
     ELSE IF manifestConflict /\ manifestIndex.idx[relativePath] # digest
       THEN [ok |-> FALSE, err |-> "conflict", inv |-> inv]
     ELSE
       LET inv1 == [inv EXCEPT !.Versions[inv.Head].State =
                                 addPathMapping(@, logicalPath, digest)]
           inv2 == IF manifestConflict THEN inv1
                   ELSE [inv1 EXCEPT !.Manifest =
                                      addPathMapping(@, relativePath, digest)]
       IN [ok |-> TRUE, err |-> "none", inv |-> inv2]

\* AddFile that adds the logical path to the State before it checks the
\* physical path against the Manifest
AddFile_mapBeforeManifestCheck(inv, logicalPath, relativePath, digest) ==
  LET stateIndex == index(inv.Versions[inv.Head].State)
      manifestIndex == index(inv.Manifest)
      stateConflict == logicalPath \in DOMAIN stateIndex.idx
      manifestConflict == relativePath \in DOMAIN manifestIndex.idx
  IN IF ~stateIndex.ok \/ ~manifestIndex.ok
     THEN [ok |-> FALSE, err |-> "error indexing", inv |-> inv]
     ELSE IF stateConflict /\ stateIndex.idx[logicalPath] # digest
       THEN [ok |-> FALSE, err |-> "conflict", inv |-> inv]
     ELSE
       LET inv1 == IF stateConflict THEN inv
                   ELSE [inv EXCEPT !.Versions[inv.Head].State =
                                      addPathMapping(@, logicalPath, digest)]
           inv2 == IF manifestConflict THEN inv1
                   ELSE [inv1 EXCEPT !.Manifest =
                                      addPathMapping(@, relativePath, digest)]
       IN IF manifestConflict /\ manifestIndex.idx[relativePath] # digest
          THEN [ok |-> FALSE, err |-> "conflict", inv |-> inv1]
          ELSE [ok |-> TRUE, err |-> "none", inv |-> inv2]

\* Inventory.AddFile (with indexHead): result, error ("conflict!  Cannot
\* overwrite ..." or indexHead's "error indexing ...") and the inventory
\* afterwards
AddFile(inv, logicalPath, relativePath, digest) ==
  LET state == inv.Versions[inv.Head].State
      stateIndex == index(state)
      manifestIndex == index(inv.Manifest)
      stateConflict == logicalPath \in DOMAIN stateIndex.idx
      manifestConflict == relativePath \in DOMAIN manifestIndex.idx
  IN IF ~stateIndex.ok \/ ~manifestIndex.ok
     THEN [ok |-> FALSE, err |-> "error indexing", inv |-> inv]
     ELSE IF stateConflict /\ stateIndex.idx[logicalPath] # digest
       THEN [ok |-> FALSE, err |-> "conflict", inv |-> inv]
     ELSE IF manifestConflict /\ manifestIndex.idx[relativePath] # digest
       THEN [ok |-> FALSE, err |-> "conflict", inv |-> inv]
     ELSE
       LET inv1 == IF stateConflict THEN inv
                   ELSE [inv EXCEPT !.Versions[inv.Head].State =
                                      addPathMapping(@, logicalPath, digest)]
           inv2 == IF manifestConflict THEN inv1
                   ELSE [inv1 EXCEPT !.Manifest =
                                      addPathMapping(@, relativePath, digest)]
       IN [ok |-> TRUE, err |-> "none", inv |-> inv2]

\* the digest a version's State records for a logical path ("none" if absent)
StateDigest(inv, v, lp) ==
  LET st == inv.Versions[v].State
  IN IF \E d \in DOMAIN st : lp \in Range(st[d])
     THEN CHOOSE d \in DOMAIN st : lp \in Range(st[d]) ELSE "none"

\* an inventory.json (or its .sha512): absent, or holding the serialization
\* of inv completely ("complete"), in part ("partial") or not at all ("empty")
NoInv == [kind |-> "absent", inv |-> NewInventory]
InvBytes(kind, inv) == [kind |-> kind, inv |-> inv]

(* ------------------------------- state --------------------------------- *)
VARIABLES
  cfg,         \* fs.Config of the driver: which path functions are set
  objDir,      \* the object directory exists
  vdirs,       \* version directories (with content/) that exist
  marker,      \* the object-root marker 0=ocfl_object_1.0 exists
  content,     \* content files at their final physical paths
  contentTmp,  \* .ocfl.atomic.<name> temporaries next to content files
  invFile,     \* inventory.json in the object root and in version dirs
  invTmp,      \* .ocfl.atomic.inventory.json temporaries
  hashFile,    \* inventory.json.sha512 files
  hashTmp,     \* .ocfl.atomic.inventory.json.sha512 temporaries
  sOpen,       \* a session exists
  sMode,       \* how Open made the session: "init" (initObject), "next"
               \* (nextVersion) or "read" (openVersion)
  sVersion,    \* session.version.ID
  sCommitfunc, \* session.commitfunc: "nil", "writeAll" or "init"
  sInv,        \* session.inventory
  mutex,       \* holder of the session's sync.Mutex
  wk,          \* the goroutines calling Put
  cpc,         \* position of the goroutine calling Commit
  hist,        \* observations: results of the calls made so far
  scope,       \* the walker's scope: startFrom and desired (Select)
  walker,      \* position of scope.walk: directory mode or manifest mode
  walkHist,    \* observations: the callback's invocations, the walk's result
  o2Inventory, \* inventory.json of object o2 in the walked root: "good",
               \* "missing", "corrupt" (not JSON) or "inconsistent" (the
               \* State names a digest the Manifest lacks)
  crawl,       \* a crawlForRoot call: the directories above its start as
               \* os.Stat finds them, its position, the isRoot calls made
  cp,          \* the cp command: cpAction, doCopy, scan
  cpW,         \* the goroutines doCopy starts on the work queue
  mInv,        \* a metadata.Inventory a caller of the package holds
  mCall        \* the last call made on the metadata package, with its result

diskVars == <<objDir, vdirs, marker, content, contentTmp, invFile, invTmp, hashFile, hashTmp>>
sessVars == <<sOpen, sMode, sVersion, sCommitfunc, sInv, mutex, wk, cpc>>
walkVars == <<scope, walker, walkHist, o2Inventory, crawl>>
cpVars == <<cp, cpW>>
metaVars == <<mInv, mCall>>
vars == <<cfg, diskVars, sessVars, hist, walkVars, cpVars, metaVars>>

\* what a call on the session leaves alone: the walker, and the cp command
\* unless it is the cp command that makes the call
SessionFrame ==
  /\ UNCHANGED <<walkVars, metaVars>>
  /\ cp.pc = "idle" => UNCHANGED cpVars

IdleWorker == [pc |-> "idle", lp |-> "a", c |-> "c1", handle |-> "none", before |-> NoFile]

InitHist ==
  [sessions |-> 0,       \* sessions opened
   puts |-> 0,           \* Put calls made on the current session
   commitCalls |-> 0,    \* Commit calls made on the current session
   openRes |-> "none",   \* result of the last Open
   lastPut |-> "none",   \* result of the last Put that returned
   putOk |-> {},         \* <<lp, content>> of the Puts that returned nil
   commitRes |-> "none", \* result of the last Commit of the session
   committed |-> FALSE,  \* a Commit of the session ran its commitfunc and returned nil
   rootAtOpen |-> NoInv, \* <root>/inventory.json when the session opened
   putOkAtCommit |-> {}] \* putOk when the last Commit was called

\* the state after fs.MkRoot and fs.NewDriver: an empty OCFL root
InitDisk ==
  /\ objDir = FALSE
  /\ vdirs = {}
  /\ marker = FALSE
  /\ content = [p \in PhysPaths |-> NoFile]
  /\ contentTmp = [p \in PhysPaths |-> NoFile]
  /\ invFile = [d \in Dirs |-> NoInv]
  /\ invTmp = [d \in Dirs |-> NoInv]
  /\ hashFile = [d \in Dirs |-> NoInv]
  /\ hashTmp = [d \in Dirs |-> NoInv]

InitSession ==
  /\ sOpen = FALSE
  /\ sMode = "none"
  /\ sVersion = V1
  /\ sCommitfunc = "nil"
  /\ sInv = NewInventory
  /\ mutex = "free"
  /\ wk = [w \in Workers |-> IdleWorker]
  /\ cpc = "idle"

(* ------------------------- fs.Driver / session.Open -------------------- *)

\* setupVersion that stages the new version with an empty State
setupVersion_noCopy(inv, prev, next) ==
  IF ~Valid(next) THEN [ok |-> FALSE, inv |-> inv]
  ELSE [ok |-> TRUE,
        inv |-> [inv EXCEPT
                   !.Head = next,
                   !.Versions = (next :> [State |-> EmptyMap, meta |-> "unset"])
                                @@ inv.Versions]]

\* setupVersion that adds the version without moving Head to it
setupVersion_keepHead(inv, prev, next) ==
  IF ~Valid(next) THEN [ok |-> FALSE, inv |-> inv]
  ELSE [ok |-> TRUE,
        inv |-> [inv EXCEPT
                   !.Versions =
                     (next :> [State |-> IF prev \in DOMAIN inv.Versions
                                         THEN inv.Versions[prev].State
                                         ELSE EmptyMap,
                               meta |-> "unset"]) @@ inv.Versions]]

\* setupVersion that moves the previous version's State to the new version
\* instead of copying it
setupVersion_moveState(inv, prev, next) ==
  IF ~Valid(next) THEN [ok |-> FALSE, inv |-> inv]
  ELSE [ok |-> TRUE,
        inv |-> [inv EXCEPT
                   !.Head = next,
                   !.Versions =
                     (next :> [State |-> IF prev \in DOMAIN inv.Versions
                                         THEN inv.Versions[prev].State
                                         ELSE EmptyMap,
                               meta |-> "unset"])
                     @@ [v \in DOMAIN inv.Versions |->
                           [inv.Versions[v] EXCEPT
                              !.State = IF v = prev THEN EmptyMap ELSE @]]]]

\* session.setupVersion: the inventory after staging version next
setupVersion(inv, prev, next) ==
  IF ~Valid(next) THEN [ok |-> FALSE, inv |-> inv]
  ELSE [ok |-> TRUE,
        inv |-> [inv EXCEPT
                   !.Head = next,
                   !.Versions =
                     (next :> [State |-> IF prev \in DOMAIN inv.Versions
                                         THEN inv.Versions[prev].State
                                         ELSE EmptyMap,
                               meta |-> "unset"]) @@ inv.Versions]]

RECURSIVE StrLess(_, _)
\* Go's < on strings
StrLess(a, b) ==
  LET
    \* ASCII codes of the characters version names are made of
    CharOrd(c) == IF IsDigit(c) THEN 48 + DigitVal(c)
                  ELSE IF c = "v" THEN 118 ELSE IF c = "a" THEN 97
                  ELSE IF c = "b" THEN 98 ELSE IF c = "/" THEN 47
                  ELSE IF c = "+" THEN 43 ELSE IF c = "-" THEN 45 ELSE 46
  IN
  IF b = <<>> THEN FALSE
  ELSE IF a = <<>> THEN TRUE
  ELSE IF Head(a) # Head(b) THEN CharOrd(Head(a)) < CharOrd(Head(b))
  ELSE StrLess(Tail(a), Tail(b))

\* prepareWrite without the past-revision check
prepareWrite_noVersionCheck(commitfunc, version, inv) ==
  IF ~cfg.FilePathFunc THEN [ok |-> FALSE, commitfunc |-> commitfunc]
  ELSE IF commitfunc # "nil" THEN [ok |-> TRUE, commitfunc |-> commitfunc]
  ELSE [ok |-> TRUE, commitfunc |-> "writeAll"]

\* prepareWrite that compares the version names as strings
prepareWrite_lexical(commitfunc, version, inv) ==
  IF ~cfg.FilePathFunc THEN [ok |-> FALSE, commitfunc |-> commitfunc]
  ELSE IF commitfunc # "nil" THEN [ok |-> TRUE, commitfunc |-> commitfunc]
  ELSE IF StrLess(version, inv.Head)
    THEN [ok |-> FALSE, commitfunc |-> commitfunc]
  ELSE [ok |-> TRUE, commitfunc |-> "writeAll"]

\* prepareWrite without the check that a file path function is configured
prepareWrite_noPathFuncCheck(commitfunc, version, inv) ==
  IF commitfunc # "nil" THEN [ok |-> TRUE, commitfunc |-> commitfunc]
  ELSE IF IntOf(version).val < IntOf(inv.Head).val
    THEN [ok |-> FALSE, commitfunc |-> commitfunc]
  ELSE [ok |-> TRUE, commitfunc |-> "writeAll"]

\* session.prepareWrite: ok and the commitfunc afterwards
prepareWrite(commitfunc, version, inv) ==
  IF ~cfg.FilePathFunc THEN [ok |-> FALSE, commitfunc |-> commitfunc]
  ELSE IF commitfunc # "nil" THEN [ok |-> TRUE, commitfunc |-> commitfunc]
  ELSE IF IntOf(version).val < IntOf(inv.Head).val
    THEN [ok |-> FALSE, commitfunc |-> commitfunc]
  ELSE [ok |-> TRUE, commitfunc |-> "writeAll"]

OpenHist(res, found) ==
  [sessions |-> hist.sessions + 1, puts |-> hist.puts, commitCalls |-> hist.commitCalls,
   openRes |-> res, lastPut |-> "none", putOk |-> {}, commitRes |-> "none",
   committed |-> FALSE,
   rootAtOpen |-> invFile[RootDir], putOkAtCommit |-> {}]

OpenFails(res, found) ==
  /\ hist' = OpenHist(res, found)
  /\ UNCHANGED <<cfg, sessVars>>

\* initObject that writes the object-root marker when it creates the
\* object directory
initObject_markerFirst(found) ==
  IF ~cfg.ObjectPathFunc
  THEN OpenFails("error", found) /\ UNCHANGED diskVars
  ELSE LET sv == setupVersion(NewInventory, VersionHEAD, NewInventory.Head)
       IN /\ objDir' = TRUE
          /\ marker' = TRUE
          /\ vdirs' = vdirs \cup {sv.inv.Head}
          /\ sOpen' = TRUE
          /\ sMode' = "init"
          /\ sVersion' = sv.inv.Head
          /\ sInv' = sv.inv
          /\ sCommitfunc' = "init"
          /\ hist' = OpenHist("ok", found)
          /\ UNCHANGED <<cfg, content, contentTmp, invFile, invTmp,
                         hashFile, hashTmp, mutex, wk, cpc>>

\* session.initObject
initObject(found) ==
  IF ~cfg.ObjectPathFunc
  THEN OpenFails("error", found) /\ UNCHANGED diskVars
  ELSE LET sv == setupVersion(NewInventory, VersionHEAD, NewInventory.Head)
       IN /\ objDir' = TRUE
          /\ vdirs' = vdirs \cup {sv.inv.Head}
          /\ sOpen' = TRUE
          /\ sMode' = "init"
          /\ sVersion' = sv.inv.Head
          /\ sInv' = sv.inv
          /\ sCommitfunc' = "init"
          /\ hist' = OpenHist("ok", found)
          /\ UNCHANGED <<cfg, marker, content, contentTmp, invFile, invTmp,
                         hashFile, hashTmp, mutex, wk, cpc>>

\* session.nextVersion
nextVersion(found) ==
  LET prev == found.inv.Head
      next == Increment(prev)
      sv == setupVersion(found.inv, prev, next.id)
      pw == prepareWrite("nil", next.id, sv.inv)
  IN IF ~next.ok \/ ~sv.ok
     THEN OpenFails("error", found) /\ UNCHANGED diskVars
     ELSE /\ vdirs' = vdirs \cup {next.id}
          /\ UNCHANGED <<objDir, marker, content, contentTmp, invFile, invTmp,
                         hashFile, hashTmp>>
          /\ IF ~pw.ok THEN OpenFails("error", found)
             ELSE /\ sOpen' = TRUE
                  /\ sMode' = "next"
                  /\ sVersion' = next.id
                  /\ sInv' = sv.inv
                  /\ sCommitfunc' = pw.commitfunc
                  /\ hist' = OpenHist("ok", found)
                  /\ UNCHANGED <<cfg, mutex, wk, cpc>>

\* session.openVersion
openVersion(found, ver) ==
  LET v == IF ver = VersionHEAD THEN found.inv.Head ELSE ver
  IN IF v \notin DOMAIN found.inv.Versions
     THEN OpenFails("error", found) /\ UNCHANGED diskVars
     ELSE /\ sOpen' = TRUE
          /\ sMode' = "read"
          /\ sVersion' = v
          /\ sInv' = found.inv
          /\ sCommitfunc' = "nil"
          /\ hist' = OpenHist("ok", found)
          /\ UNCHANGED <<cfg, diskVars, mutex, wk, cpc>>

\* Driver.Open(id, Options{Create: create, Version: ver})
Open(create, ver) ==
  LET
    \* Driver.readObject: "absent" (nil, nil, nil), "error", "object" (an Object
    \* ref with its inventory) or "intermediate" (resolve found a directory
    \* without the object marker: an Intermediate ref and a nil inventory)
    readObject ==
      LET
        \* ReadInventory: os.Open + metadata.Parse of <dir>/inventory.json
        ReadInventory(dir) ==
          IF invFile[dir] = NoInv THEN [res |-> "notexist", inv |-> NewInventory]
          ELSE IF invFile[dir].kind # "complete" THEN [res |-> "error", inv |-> NewInventory]
          ELSE [res |-> "ok", inv |-> invFile[dir].inv]
      IN
      LET rd == ReadInventory(RootDir)
      IN IF cfg.ObjectPathFunc
         THEN IF ~objDir THEN [res |-> "absent", inv |-> NewInventory]
              ELSE IF ~marker THEN [res |-> "intermediate", inv |-> NewInventory]
              ELSE IF rd.res = "notexist" THEN [res |-> "absent", inv |-> NewInventory]
              ELSE IF rd.res = "error" THEN rd
              ELSE [res |-> "object", inv |-> rd.inv]
         ELSE IF ~objDir \/ ~marker THEN [res |-> "absent", inv |-> NewInventory]
              ELSE IF rd.res # "ok" THEN [res |-> "error", inv |-> NewInventory]
              ELSE [res |-> "object", inv |-> rd.inv]
  IN
  /\ SessionFrame
  /\ ~sOpen
  /\ hist.sessions < MaxSessions
  /\ LET found == readObject
     IN /\ (found.res = "object" /\ ver = VersionNEW) =>
              IntOf(found.inv.Head).val < MaxVersion
        /\ CASE found.res = "error" -> OpenFails("error", found) /\ UNCHANGED diskVars
             [] found.res = "absent" /\ ~create ->
                  OpenFails("error", found) /\ UNCHANGED diskVars
             [] found.res = "absent" /\ create -> initObject(found)
             [] found.res = "intermediate" ->
                  \* s.inventory is nil: nextVersion / openVersion dereference it
                  OpenFails("panic", found) /\ UNCHANGED diskVars
             [] found.res = "object" /\ ver = VersionNEW -> nextVersion(found)
             [] OTHER -> openVersion(found, ver)

OpenVersions == {VersionNEW, VersionHEAD} \cup AllVids

\* the caller drops the session: every call on it has returned, and the
\* session's memory is gone
Abandon ==
  /\ SessionFrame
  /\ sOpen
  /\ cpc = "idle"
  /\ \A w \in Workers : wk[w].pc = "idle"
  /\ sOpen' = FALSE
  /\ sMode' = "none"
  /\ sVersion' = V1
  /\ sCommitfunc' = "nil"
  /\ sInv' = NewInventory
  /\ wk' = [w \in Workers |-> IdleWorker]
  /\ hist' = [InitHist EXCEPT !.sessions = hist.sessions, !.puts = hist.puts,
                              !.commitCalls = hist.commitCalls]
  /\ UNCHANGED <<cfg, diskVars, mutex, cpc>>

(* ------------------- ManagedWrite: SafeWrite / AtomicWrite ------------- *)

\* AtomicWrite that opens the temporary without O_EXCL
AtomicWrite_overwrite(pp) == "atomic"

\* AtomicWrite(path): "atomic" creates the temporary next to the path
\* (O_EXCL); it fails when that temporary already exists
AtomicWrite(pp) == IF contentTmp[pp] = NoFile THEN "atomic" ELSE "error"

\* SafeWrite(path): "direct" creates the file at the path itself (O_EXCL);
\* when the path exists it falls back to AtomicWrite
SafeWrite(pp) == IF content[pp] = NoFile THEN "direct" ELSE AtomicWrite(pp)

\* the path still names the file this goroutine created with SafeWrite
OwnsFinal(w, pp) == content[pp] # NoFile /\ content[pp].owner = w

(* ------------------------------ session.Put ---------------------------- *)
\* session.filePaths with fs.Passthrough: <version>/content/<lpath>
filePaths(lp) == [ver |-> sVersion, lp |-> lp]

\* Put, up to the deferred Rollback being armed: prepareWrite, filePaths,
\* MkdirAll, SafeWrite
PutBegin(w, lp, c) ==
  LET
    \* a file: its bytes (data, st) and the goroutine that still holds the
    \* descriptor it was created through ("none" once closed)
    EmptyFile(g) == [data |-> "none", st |-> "empty", owner |-> g]
  IN
  /\ SessionFrame
  /\ sOpen
  /\ wk[w].pc = "idle"
  /\ hist.puts < MaxPuts
  /\ LET pw == prepareWrite(sCommitfunc, sVersion, sInv)
         pp == filePaths(lp)
         sw == SafeWrite(pp)
     IN IF ~pw.ok
        THEN /\ hist' = [hist EXCEPT !.puts = @ + 1, !.lastPut = "rejected"]
             /\ wk' = [wk EXCEPT ![w] = [IdleWorker EXCEPT !.lp = lp, !.c = c]]
             /\ UNCHANGED <<cfg, diskVars, sOpen, sMode, sVersion, sCommitfunc, sInv,
                            mutex, cpc>>
        ELSE /\ sCommitfunc' = pw.commitfunc
             /\ vdirs' = vdirs \cup {sVersion}
             /\ content' = IF sw = "direct"
                           THEN [content EXCEPT ![pp] = EmptyFile(w)] ELSE content
             /\ contentTmp' = IF sw = "atomic"
                              THEN [contentTmp EXCEPT ![pp] = EmptyFile(w)]
                              ELSE contentTmp
             /\ wk' = [wk EXCEPT ![w] =
                         [pc |-> IF sw = "error" THEN "idle" ELSE "writing",
                          lp |-> lp, c |-> c,
                          handle |-> IF sw = "error" THEN "none" ELSE sw,
                          before |-> content[pp]]]
             /\ hist' = [hist EXCEPT !.puts = @ + 1,
                                     !.lastPut = IF sw = "error" THEN "openerr" ELSE @]
             /\ UNCHANGED <<cfg, objDir, marker, invFile, invTmp, hashFile, hashTmp,
                            sOpen, sMode, sVersion, sInv, mutex, cpc>>

\* io.Copy through the TeeWriter returned nil: every byte is in the file
PutCopyOk(w) ==
  LET
    FullFile(c, g) == [data |-> c, st |-> "complete", owner |-> g]
  IN
  /\ SessionFrame
  /\ wk[w].pc = "writing"
  /\ LET pp == filePaths(wk[w].lp)
     IN /\ content' = IF wk[w].handle = "direct" /\ OwnsFinal(w, pp)
                      THEN [content EXCEPT ![pp] = FullFile(wk[w].c, w)] ELSE content
        /\ contentTmp' = IF wk[w].handle = "atomic"
                         THEN [contentTmp EXCEPT ![pp] = FullFile(wk[w].c, w)]
                         ELSE contentTmp
  /\ wk' = [wk EXCEPT ![w].pc = "copied"]
  /\ UNCHANGED <<cfg, objDir, vdirs, marker, invFile, invTmp, hashFile, hashTmp,
                 sOpen, sMode, sVersion, sCommitfunc, sInv, mutex, cpc, hist>>

\* io.Copy failed (source read error, write error, or the TeeWriter's byte
\* count mismatch): Put returns, and the deferred Rollback closes the file
\* and removes what SafeWrite created (os.Remove of the path, or of the
\* temporary)
PutCopyFail(w) ==
  /\ SessionFrame
  /\ wk[w].pc = "writing"
  /\ LET pp == filePaths(wk[w].lp)
     IN /\ content' = IF wk[w].handle = "direct"
                      THEN [content EXCEPT ![pp] = NoFile] ELSE content
        /\ contentTmp' = IF wk[w].handle = "atomic"
                         THEN [contentTmp EXCEPT ![pp] = NoFile] ELSE contentTmp
  /\ wk' = [wk EXCEPT ![w].pc = "idle", ![w].handle = "none"]
  /\ hist' = [hist EXCEPT !.lastPut = "copyerr"]
  /\ UNCHANGED <<cfg, objDir, vdirs, marker, invFile, invTmp, hashFile, hashTmp,
                 sOpen, sMode, sVersion, sCommitfunc, sInv, mutex, cpc>>

\* Put without the session's lock: the goroutine goes on to the
\* bookkeeping step without waiting for the mutex
PutLock_noLock(w) ==
  /\ SessionFrame
  /\ wk[w].pc = "copied"
  /\ mutex' = w
  /\ wk' = [wk EXCEPT ![w].pc = "locked"]
  /\ UNCHANGED <<cfg, diskVars, sOpen, sMode, sVersion, sCommitfunc, sInv, cpc, hist>>

\* s.Lock()
PutLock(w) ==
  /\ SessionFrame
  /\ wk[w].pc = "copied"
  /\ mutex = "free"
  /\ mutex' = w
  /\ wk' = [wk EXCEPT ![w].pc = "locked"]
  /\ UNCHANGED <<cfg, diskVars, sOpen, sMode, sVersion, sCommitfunc, sInv, cpc, hist>>

\* under the lock: fw.Close() (for an atomic handle, the rename onto the
\* final path), inventory.PutFile, then the deferred Unlock and Rollback.
\* After a Close that returned nil the Rollback is a no-op (closed is set).
\* When the file's own Close fails (closeOk = FALSE), closeWith returns
\* before setting closed and before closeFunc; the deferred Rollback closes
\* the descriptor again, gets an error, and returns before rollbackFunc
PutFinish(w, closeOk) ==
  LET
    \* Inventory.PutFile, the registration step Put calls: the mapping is
    \* registered through AddFile
    PutFile(inv, logicalPath, relativePath, digest) ==
      AddFile(inv, logicalPath, relativePath, digest)
  IN
  /\ SessionFrame
  /\ wk[w].pc = "locked"
  /\ mutex = w
  /\ LET pp == filePaths(wk[w].lp)
         reg == PutFile(sInv, wk[w].lp, pp, DigestOf(wk[w].c))
     IN /\ content' = IF wk[w].handle = "atomic" /\ closeOk
                      THEN [content EXCEPT ![pp] = [contentTmp[pp] EXCEPT !.owner = "none"]]
                      ELSE IF wk[w].handle = "direct" /\ OwnsFinal(w, pp)
                      THEN [content EXCEPT ![pp].owner = "none"]
                      ELSE content
        /\ contentTmp' = IF wk[w].handle = "atomic"
                         THEN [contentTmp EXCEPT ![pp] =
                                 IF closeOk THEN NoFile ELSE [@ EXCEPT !.owner = "none"]]
                         ELSE contentTmp
        /\ sInv' = IF closeOk THEN reg.inv ELSE sInv
        /\ hist' = [hist EXCEPT
                      !.lastPut = IF ~closeOk THEN "closeerr"
                                  ELSE IF reg.ok THEN "ok" ELSE "regerr",
                      !.putOk = IF closeOk /\ reg.ok
                                THEN @ \cup {<<wk[w].lp, wk[w].c>>} ELSE @]
  /\ mutex' = "free"
  /\ wk' = [wk EXCEPT ![w].pc = "idle", ![w].handle = "none"]
  /\ UNCHANGED <<cfg, objDir, vdirs, marker, invFile, invTmp, hashFile, hashTmp,
                 sOpen, sMode, sVersion, sCommitfunc, cpc>>

(* ----------------------------- session.Commit -------------------------- *)
\* Commit returns an error: the deferred Unlock runs
CommitReturns(res) ==
  /\ cpc' = "idle"
  /\ mutex' = "free"
  /\ hist' = [hist EXCEPT !.commitRes = res,
                          !.committed = IF res = "ok" THEN TRUE ELSE @]

\* Commit: s.Lock()
CommitBegin ==
  /\ SessionFrame
  /\ sOpen
  /\ cpc = "idle"
  /\ mutex = "free"
  /\ hist.commitCalls < MaxCommits
  /\ mutex' = "commit"
  /\ cpc' = "locked"
  /\ hist' = [hist EXCEPT !.commitRes = "running", !.commitCalls = @ + 1,
                          !.putOkAtCommit = hist.putOk]
  /\ UNCHANGED <<cfg, diskVars, sOpen, sMode, sVersion, sCommitfunc, sInv, wk>>

\* under the lock: stamp Created / Message / User on the head version, and
\* enter the commitfunc if there is one; without one Commit returns nil
\* and the deferred Unlock runs
CommitStamp(msg) ==
  /\ SessionFrame
  /\ cpc = "locked"
  /\ sInv' = [sInv EXCEPT !.Versions[sInv.Head].meta = msg]
  /\ IF sCommitfunc = "nil"
     THEN /\ cpc' = "idle"
          /\ mutex' = "free"
          /\ hist' = [hist EXCEPT !.commitRes = "ok"]
     ELSE /\ cpc' = "writeInventory"
          /\ UNCHANGED <<mutex, hist>>
  /\ UNCHANGED <<cfg, diskVars, sOpen, sMode, sVersion, sCommitfunc, wk>>

\* writeInventory(s.version.Addr): AtomicWrite of <version>/inventory.json
CommitOpenInventory ==
  /\ SessionFrame
  /\ cpc = "writeInventory"
  /\ IF invTmp[sVersion] # NoInv
     THEN CommitReturns("err") /\ UNCHANGED invTmp
     ELSE /\ invTmp' = [invTmp EXCEPT ![sVersion] = InvBytes("empty", sInv)]
          /\ cpc' = "serialize"
          /\ UNCHANGED <<mutex, hist>>
  /\ UNCHANGED <<cfg, objDir, vdirs, marker, content, contentTmp, invFile,
                 hashFile, hashTmp, sOpen, sMode, sVersion, sCommitfunc, sInv, wk>>

SerializeOutcomes == {"complete", "empty", "partial"}

\* writeInventory: inventory.Serialize into the temporary, the .sha512 file,
\* and the deferred invWriter.Close(), which renames the temporary onto
\* inventory.json on every return path.  out is what Serialize managed to
\* write: everything, nothing (encoding error) or a part (write error)
CommitSerialize(out) ==
  /\ SessionFrame
  /\ cpc = "serialize"
  /\ invTmp' = [invTmp EXCEPT ![sVersion] = NoInv]
  /\ invFile' = [invFile EXCEPT ![sVersion] = InvBytes(out, sInv)]
  /\ IF out = "complete"
     THEN /\ hashFile' = [hashFile EXCEPT ![sVersion] = InvBytes("complete", sInv)]
          /\ cpc' = "copyInventory"
          /\ UNCHANGED <<mutex, hist>>
     ELSE /\ CommitReturns("err")
          /\ UNCHANGED hashFile
  /\ UNCHANGED <<cfg, objDir, vdirs, marker, content, contentTmp, hashTmp,
                 sOpen, sMode, sVersion, sCommitfunc, sInv, wk>>

\* copyInventoryFiles(version dir, object root): open the sources and
\* AtomicWrite both destinations; a failure rolls back what was opened
CommitOpenCopy ==
  /\ SessionFrame
  /\ cpc = "copyInventory"
  /\ IF invFile[sVersion] = NoInv \/ invTmp[RootDir] # NoInv
     THEN CommitReturns("err") /\ UNCHANGED <<invTmp, hashTmp>>
     ELSE IF hashFile[sVersion] = NoInv \/ hashTmp[RootDir] # NoInv
     THEN CommitReturns("err") /\ UNCHANGED <<invTmp, hashTmp>>
     ELSE /\ invTmp' = [invTmp EXCEPT ![RootDir] = InvBytes("empty", sInv)]
          /\ hashTmp' = [hashTmp EXCEPT ![RootDir] = InvBytes("empty", sInv)]
          /\ cpc' = "copying"
          /\ UNCHANGED <<mutex, hist>>
  /\ UNCHANGED <<cfg, objDir, vdirs, marker, content, contentTmp, invFile,
                 hashFile, sOpen, sMode, sVersion, sCommitfunc, sInv, wk>>

\* copyInventoryFiles: both io.Copy succeed and destInvWrite.Close() renames
\* the temporary onto <root>/inventory.json
CommitCopyOk ==
  /\ SessionFrame
  /\ cpc = "copying"
  /\ invFile' = [invFile EXCEPT ![RootDir] = invFile[sVersion]]
  /\ invTmp' = [invTmp EXCEPT ![RootDir] = NoInv]
  /\ hashTmp' = [hashTmp EXCEPT ![RootDir] = hashFile[sVersion]]
  /\ cpc' = "closeHash"
  /\ UNCHANGED <<cfg, objDir, vdirs, marker, content, contentTmp, hashFile,
                 sOpen, sMode, sVersion, sCommitfunc, sInv, mutex, wk, hist>>

\* copyInventoryFiles: an io.Copy fails; the deferred Rollbacks remove both
\* temporaries
CommitCopyFail ==
  /\ SessionFrame
  /\ cpc = "copying"
  /\ invTmp' = [invTmp EXCEPT ![RootDir] = NoInv]
  /\ hashTmp' = [hashTmp EXCEPT ![RootDir] = NoInv]
  /\ CommitReturns("err")
  /\ UNCHANGED <<cfg, objDir, vdirs, marker, content, contentTmp, invFile,
                 hashFile, sOpen, sMode, sVersion, sCommitfunc, sInv, wk>>

\* copyInventoryFiles: destHashWrite.Close(); writeAllInventories returns nil
CommitCloseHash ==
  /\ SessionFrame
  /\ cpc = "closeHash"
  /\ hashFile' = [hashFile EXCEPT ![RootDir] = hashTmp[RootDir]]
  /\ hashTmp' = [hashTmp EXCEPT ![RootDir] = NoInv]
  /\ IF sCommitfunc = "init"
     THEN cpc' = "writeNamaste" /\ UNCHANGED <<mutex, hist>>
     ELSE CommitReturns("ok")
  /\ UNCHANGED <<cfg, objDir, vdirs, marker, content, contentTmp, invFile,
                 invTmp, sOpen, sMode, sVersion, sCommitfunc, sInv, wk>>

\* session.writeNamaste, the second half of initObject's commitfunc
writeNamaste ==
  /\ SessionFrame
  /\ cpc = "writeNamaste"
  /\ marker' = TRUE
  /\ CommitReturns("ok")
  /\ UNCHANGED <<cfg, objDir, vdirs, content, contentTmp, invFile, invTmp,
                 hashFile, hashTmp, sOpen, sMode, sVersion, sCommitfunc, sInv, wk>>

(* --------------------------- the session machine ----------------------- *)
PutStep ==
  \/ \E w \in Workers, lp \in LPaths, c \in Contents :
       \* the goroutines are interchangeable: w2 calls Put while w1 is in Put
       /\ (w = "w2") => wk["w1"].pc # "idle"
       /\ PutBegin(w, lp, c)
  \/ \E w \in Workers : PutCopyOk(w)
  \/ \E w \in Workers : PutCopyFail(w)
  \/ \E w \in Workers : PutLock(w)
  \/ \E w \in Workers, closeOk \in BOOLEAN : PutFinish(w, closeOk)

CommitStep ==
  \/ CommitBegin
  \/ \E msg \in CommitMsgs : CommitStamp(msg)
  \/ CommitOpenInventory
  \/ \E out \in SerializeOutcomes : CommitSerialize(out)
  \/ CommitOpenCopy
  \/ CommitCopyOk
  \/ CommitCopyFail
  \/ CommitCloseHash
  \/ writeNamaste

(* ============================ scope walker ============================= *)
\* ocfl.Type
TypeAny == 0
TypeFile == 1
TypeVersion == 2
TypeObject == 3
TypeIntermediate == 4
TypeRoot == 5

\* errors: a base error and the messages errors.Wrap put around it,
\* innermost first
NoErr == [base |-> "nil", wraps |-> <<>>]
NewErr(b) == [base |-> b, wraps |-> <<>>]
Wrap(err, msg) == [err EXCEPT !.wraps = Append(@, msg)]
Cause(err) == err.base
\* what the walk callback of the caller may return
CallbackReturns == {"nil", "e"}

(* the OCFL root the walks run over: paths are sequences of names, a version
   directory's name spelled letter by letter

     root/0=ocfl_1.0        the root marker, a regular file
     root/i/o1              object o1: v1 = {a}, v2 = {a, b}, head v2
     root/o2                object o2: v1 = {a}, head v1                    *)
V2 == <<"v", "2">>
RootAddr == <<"root">>
Obj1Addr == <<"root", "i", "o1">>
Obj2Addr == <<"root", "o2">>
ObjectRoots == {Obj1Addr, Obj2Addr}

FsNodes ==
  {[path |-> RootAddr, parent |-> <<>>, kind |-> "dir"],
   [path |-> <<"root", "0=ocfl_1.0">>, parent |-> RootAddr, kind |-> "file"],
   [path |-> <<"root", "i">>, parent |-> RootAddr, kind |-> "dir"],
   [path |-> Obj1Addr, parent |-> <<"root", "i">>, kind |-> "dir"],
   [path |-> Obj2Addr, parent |-> RootAddr, kind |-> "dir"],
   [path |-> Obj1Addr \o V1, parent |-> Obj1Addr, kind |-> "dir"],
   [path |-> Obj1Addr \o V2, parent |-> Obj1Addr, kind |-> "dir"],
   [path |-> Obj2Addr \o V1, parent |-> Obj2Addr, kind |-> "dir"]}

\* readMetadata(path) of an object root: the inventory and the error it
\* returns. A missing inventory.json fails in os.Open, one that is not JSON
\* in metadata.Parse; no other check is made on what is read.
readMetadata(path) ==
  LET
    \* the inventories two sessions leave in o1 (Put a; then a new version and
    \* Put b) and one session leaves in o2
    Inventory1 ==
      [Head |-> V2,
       Manifest |-> ("d1" :> <<[ver |-> V1, lp |-> "a"]>>) @@
                    ("d2" :> <<[ver |-> V2, lp |-> "b"]>>),
       Versions |-> (V1 :> [State |-> ("d1" :> <<"a">>), meta |-> "m1"]) @@
                    (V2 :> [State |-> ("d1" :> <<"a">>) @@ ("d2" :> <<"b">>),
                            meta |-> "m1"])]
    Inventory2 ==
      [Head |-> V1,
       Manifest |-> ("d1" :> <<[ver |-> V1, lp |-> "a"]>>),
       Versions |-> (V1 :> [State |-> ("d1" :> <<"a">>), meta |-> "m1"])]
    \* o2's inventory when its State also lists b under a digest that has
    \* no Manifest entry
    Inconsistent2 ==
      [Inventory2 EXCEPT !.Versions[V1].State = @ @@ ("d2" :> <<"b">>)]
  IN
  IF path = Obj1Addr THEN [inv |-> Inventory1, err |-> NoErr]
  ELSE IF o2Inventory = "missing"
    THEN [inv |-> Inventory2,
          err |-> Wrap(NewErr("no such file"), "could not open manifest")]
  ELSE IF o2Inventory = "corrupt"
    THEN [inv |-> Inventory2,
          err |-> Wrap(NewErr("invalid character"), "could not parse manifest")]
  ELSE [inv |-> IF o2Inventory = "inconsistent" THEN Inconsistent2 ELSE Inventory2,
        err |-> NoErr]

(* ---------------------- Inventory.Files (inventory.go) ----------------- *)
\* a physical path as the string the manifest holds: <version>/content/<lp>,
\* the constant middle segment left out; the empty string for EmptyPath
EmptyPath == [ver |-> <<>>, lp |-> ""]

\* the digests of a version's State for which Files returns an error
BadDigests(inv, version) ==
  {d \in DOMAIN inv.Versions[version].State :
     /\ inv.Versions[version].State[d] # <<>>
     /\ d \notin DOMAIN inv.Manifest \/ inv.Manifest[d] = <<>>}

FilesOf(inv, version, digests) ==
  LET
    PathStr(p) == IF p = EmptyPath THEN <<>> ELSE p.ver \o <<"/", p.lp>>
    \* the physical path Files picks for a digest's list of paths
    PickPath(ppaths, vid) ==
      IF Len(ppaths) = 1 THEN ppaths[1]
      ELSE LET \* spaths starts as len(ppaths) empty strings
               spaths == {EmptyPath} \cup
                         {p \in Range(ppaths) :
                            StrLess(PathStr(p), vid) \/ p.ver = vid}
           IN CHOOSE p \in spaths :
                \A q \in spaths : ~StrLess(PathStr(p), PathStr(q))
  IN
  UNION {{[digest |-> d,
           LogicalPath |-> lp,
           PhysicalPath |-> PickPath(inv.Manifest[d], version)] :
            lp \in Range(inv.Versions[version].State[d])} :
         d \in digests}

\* Files that leaves out the logical paths whose digest has no physical
\* path, without an error
Files_skipBad(inv, version) ==
  IF version \notin DOMAIN inv.Versions
  THEN {[ok |-> FALSE, err |-> "no version present", files |-> {}]}
  ELSE {[ok |-> TRUE, err |-> "none",
         files |-> FilesOf(inv, version,
                           DOMAIN inv.Versions[version].State \ BadDigests(inv, version))]}

\* Inventory.Files(version): the results it can return. The State is a Go
\* map, ranged over in an unspecified order: on an error the files of the
\* digests ranged over before the offending one are returned with it.
Files(inv, version) ==
  IF version \notin DOMAIN inv.Versions
  THEN {[ok |-> FALSE, err |-> "no version present", files |-> {}]}
  ELSE LET state == inv.Versions[version].State
           bad == BadDigests(inv, version)
       IN IF bad = {}
          THEN {[ok |-> TRUE, err |-> "none",
                 files |-> FilesOf(inv, version, DOMAIN state)]}
          ELSE {[ok |-> FALSE,
                 err |-> IF d \in DOMAIN inv.Manifest THEN "no physical files"
                         ELSE "no manifest entry",
                 files |-> FilesOf(inv, version, ds)] :
                  d \in bad, ds \in SUBSET (DOMAIN state \ bad)}

(* ------------------------------ entity refs ---------------------------- *)
\* an ocfl.EntityRef is the sequence of its own node and its Parent chain
Node(t, id, addr) == [Type |-> t, ID |-> id, Addr |-> addr]
RootNode == Node(TypeRoot, <<>>, RootAddr)
ObjectID(path) == <<path[Len(path)]>>
ObjectRef(path) == <<Node(TypeObject, ObjectID(path), path), RootNode>>
VersionRef(path, v) == <<Node(TypeVersion, v, path \o v)>> \o ObjectRef(path)
FileRef(path, v, file) ==
  <<Node(TypeFile, <<file.LogicalPath>>,
         path \o file.PhysicalPath.ver \o <<"content", file.PhysicalPath.lp>>)>>
  \o VersionRef(path, v)
IntermediateRef(path) ==
  <<Node(TypeIntermediate, SubSeq(path, Len(RootAddr) + 1, Len(path)), path),
    RootNode>>

\* Driver.Walk: the startFrom it builds for a location (resolve) or for
\* logical coordinates, with the entity of the root that it denotes
WalkStarts ==
  {[ref |-> <<RootNode>>, ent |-> <<RootNode>>],
   [ref |-> IntermediateRef(<<"root", "i">>), ent |-> IntermediateRef(<<"root", "i">>)],
   [ref |-> <<Node(TypeObject, ObjectID(Obj1Addr), Obj1Addr)>>,
    ent |-> ObjectRef(Obj1Addr)],
   [ref |-> <<Node(TypeObject, ObjectID(Obj1Addr), <<>>), RootNode>>,
    ent |-> ObjectRef(Obj1Addr)],
   [ref |-> <<Node(TypeVersion, V1, Obj1Addr \o V1),
              Node(TypeObject, ObjectID(Obj1Addr), Obj1Addr)>>,
    ent |-> VersionRef(Obj1Addr, V1)],
   [ref |-> <<Node(TypeVersion, V2, <<>>),
              Node(TypeObject, ObjectID(Obj1Addr), <<>>), RootNode>>,
    ent |-> VersionRef(Obj1Addr, V2)],
   [ref |-> <<Node(TypeFile, <<"b">>, <<>>), Node(TypeVersion, V2, <<>>),
              Node(TypeObject, ObjectID(Obj1Addr), <<>>), RootNode>>,
    ent |-> FileRef(Obj1Addr, V2,
                    [LogicalPath |-> "b", PhysicalPath |-> [ver |-> V2, lp |-> "b"]])],
   [ref |-> <<Node(TypeFile, <<"a">>, Obj2Addr \o V1 \o <<"content", "a">>),
              Node(TypeVersion, V1, Obj2Addr \o V1),
              Node(TypeObject, ObjectID(Obj2Addr), Obj2Addr)>>,
    ent |-> FileRef(Obj2Addr, V1,
                    [LogicalPath |-> "a", PhysicalPath |-> [ver |-> V1, lp |-> "a"]])]}

\* findRoot(ref, t): the nearest node of type t in the Parent chain; for the
\* OCFL root, failing that, crawlForRoot from the ref's address
findRoot(ref, t) ==
  IF \E i \in 1..Len(ref) : ref[i].Type = t
  THEN LET i == CHOOSE j \in 1..Len(ref) :
                  ref[j].Type = t /\ \A k \in 1..(j - 1) : ref[k].Type # t
       IN [ok |-> TRUE, ref |-> SubSeq(ref, i, Len(ref))]
  ELSE IF t = TypeRoot /\ ref[1].Addr # <<>>
    THEN [ok |-> TRUE, ref |-> <<RootNode>>]
  ELSE [ok |-> FALSE, ref |-> ref]

\* scope.contains that does not compare the entity with the start entity
contains_anyStart(entity) ==
  scope.desired.Type = entity[1].Type \/ scope.desired.Type = TypeAny

\* scope.contains(entity)
contains(entity) ==
  LET startFrom == scope.start.ref
      Matches(i) == /\ i < Len(entity)
                    /\ entity[i].ID = startFrom[1].ID
                    /\ entity[i].Type = startFrom[1].Type
      Differs(i) == \E k \in 0..Len(startFrom) :
                      /\ 1 + k < Len(startFrom)
                      /\ i + k < Len(entity)
                      /\ startFrom[1 + k].ID # entity[i + k].ID
      isUnderStart == \/ startFrom[1].Type = TypeRoot
                      \/ \E i \in 1..Len(entity) : Matches(i)
  IN /\ ~\E i \in 1..Len(entity) : Matches(i) /\ Differs(i)
     /\ isUnderStart
     /\ scope.desired.Type = entity[1].Type \/ scope.desired.Type = TypeAny

(* ------------------------- fsWalk and scope.walk ----------------------- *)
\* the Callback fsWalk hands to godirwalk, replacing the error of f
fsWalkCallback_replace(terminal, err) ==
  IF err # NoErr THEN NewErr("terminating walk due to error")
  ELSE IF terminal THEN NewErr("skip")
  ELSE NoErr

\* a Callback that never tells godirwalk to skip the node
fsWalkCallback_neverSkip(terminal, err) ==
  IF err # NoErr THEN Wrap(err, "terminating walk due to error")
  ELSE NoErr

\* the Callback fsWalk hands to godirwalk, given what f returned
fsWalkCallback(terminal, err) ==
  IF err # NoErr THEN Wrap(err, "terminating walk due to error")
  ELSE IF terminal THEN NewErr("skip")
  ELSE NoErr

\* an ErrorCallback that skips the node on every error
ErrorCallback_skipAll(err) == "SkipNode"

\* the ErrorCallback fsWalk hands to godirwalk
ErrorCallback(err) == IF Cause(err) = "skip" THEN "SkipNode" ELSE "Halt"

IdleWalker ==
  [pc |-> "idle",   \* "idle", "root", "fs", "versions", "files" or "done"
   stack |-> <<>>,  \* directory mode: per depth, the entries not yet visited
   obj |-> <<>>,    \* manifest mode: the object root being walked
   vers |-> {},     \* manifest mode: versions not yet ranged over
   curV |-> <<>>,   \* manifest mode: the version whose files are emitted
   files |-> {}]    \* manifest mode: files of curV not yet ranged over
DoneWalker == [IdleWalker EXCEPT !.pc = "done"]

InitWalkHist ==
  [calls |-> 0,         \* invocations of the callback
   emitted |-> {},      \* the entities it was invoked with
   cbErr |-> NoErr,     \* the first error it returned
   errType |-> TypeAny, \* the type of the entity it returned that error for
   result |-> NoErr]    \* what the walk returned

\* s.root of newScope
ScopeRoot == findRoot(scope.start.ref, TypeRoot).ref

RECURSIVE DropEmpty(_)
\* godirwalk returns from the directories it has finished
DropEmpty(st) ==
  IF st # <<>> /\ st[Len(st)] = {} THEN DropEmpty(SubSeq(st, 1, Len(st) - 1))
  ELSE st

\* godirwalk after its Callback returned for path: an error goes to the
\* ErrorCallback, which halts the walk or skips the node; without an error
\* the children of path are walked next. rest is the stack without path.
\* On Halt, scope.walk wraps the error godirwalk.Walk returns.
AfterFsCallback(rest, path, terminal, err) ==
  LET
    FsChildren(dir) == {n.path : n \in {m \in FsNodes : m.parent = dir}}
  IN
  LET r == fsWalkCallback(terminal, err)
      st == DropEmpty(IF r = NoErr THEN Append(rest, FsChildren(path)) ELSE rest)
  IN IF r # NoErr /\ ErrorCallback(r) = "Halt"
     THEN [w |-> DoneWalker, result |-> Wrap(r, "error performing walk")]
     ELSE IF st = <<>> THEN [w |-> DoneWalker, result |-> NoErr]
     ELSE [w |-> [IdleWalker EXCEPT !.pc = "fs", !.stack = st], result |-> NoErr]

\* f(ref) was invoked and returned ret
Invoke(ref, ret) ==
  [walkHist EXCEPT
     !.calls = @ + 1,
     !.emitted = @ \cup {ref},
     !.cbErr = IF ret # "nil" /\ @ = NoErr THEN NewErr(ret) ELSE @,
     !.errType = IF ret # "nil" /\ walkHist.cbErr = NoErr THEN ref[1].Type ELSE @]

Finish(out, h) ==
  /\ walker' = out.w
  /\ walkHist' = [h EXCEPT !.result = out.result]

\* fsWalk(startPath, ...): godirwalk starts with the directory itself
StartFs(node) ==
  LET startPath == IF node[1].Addr = <<>> THEN ScopeRoot[1].Addr ELSE node[1].Addr
  IN walker' = [IdleWalker EXCEPT !.pc = "fs", !.stack = <<{startPath}>>]

\* scope.walk up to the first invocation of f or the start of fsWalk
walk ==
  /\ walker.pc = "idle"
  /\ LET startFrom == scope.start.ref
         node == IF startFrom[1].Type < TypeObject
                 THEN findRoot(startFrom, TypeObject)
                 ELSE [ok |-> TRUE, ref |-> startFrom]
     IN IF ~node.ok
        THEN /\ walker' = DoneWalker
             /\ walkHist' = [walkHist EXCEPT !.result = NewErr("could not find root")]
        ELSE IF node.ref[1].Type = TypeRoot /\ contains(node.ref)
          THEN /\ walker' = [IdleWalker EXCEPT !.pc = "root"]
               /\ UNCHANGED walkHist
        ELSE StartFs(node.ref) /\ UNCHANGED walkHist
  /\ UNCHANGED <<scope, o2Inventory, crawl, cfg, diskVars, sessVars, hist, cpVars, metaVars>>

\* scope.walk: f(*node) for the OCFL root; its error is returned as it is
EmitRoot(ret) ==
  /\ walker.pc = "root"
  /\ walkHist' = [Invoke(scope.start.ref, ret) EXCEPT
                    !.result = IF ret # "nil" THEN NewErr(ret) ELSE NoErr]
  /\ IF ret # "nil" THEN walker' = DoneWalker ELSE StartFs(scope.start.ref)
  /\ UNCHANGED <<scope, o2Inventory, crawl, cfg, diskVars, sessVars, hist, cpVars, metaVars>>

\* walkObject and walkVersions go on after an entity: the next file of the
\* version, the next version, or the return to godirwalk
ContinueObject(vers, curV, files, h) ==
  IF files # {} \/ vers # {}
  THEN /\ walker' = [walker EXCEPT !.pc = IF files # {} THEN "files" ELSE "versions",
                                   !.vers = vers, !.curV = curV, !.files = files]
       /\ walkHist' = h
  ELSE Finish(AfterFsCallback(walker.stack, walker.obj, TRUE, NoErr), h)

\* the fsCallback of scope.walk on one directory entry, up to and including
\* its first invocation of f
FsVisit(path, ret) ==
  LET
    \* isRoot(path, ocfl.Object): the object-root marker is in the directory
    isRoot(dir) == dir \in ObjectRoots
    FsKind(p) == (CHOOSE n \in FsNodes : n.path = p).kind
  IN
  /\ walker.pc = "fs"
  /\ path \in walker.stack[Len(walker.stack)]
  /\ LET rest == [walker.stack EXCEPT ![Len(walker.stack)] = @ \ {path}]
         object == ObjectRef(path)
         inv == readMetadata(path).inv
         err == IF isRoot(path) THEN readMetadata(path).err ELSE NoErr
         called == IF FsKind(path) = "file" \/ err # NoErr THEN FALSE
                   ELSE IF isRoot(path) THEN contains(object)
                   ELSE /\ path # ScopeRoot[1].Addr
                        /\ contains(<<Node(TypeIntermediate, <<>>, <<>>)>>)
         ref == IF isRoot(path) THEN object ELSE IntermediateRef(path)
         h == IF called THEN Invoke(ref, ret) ELSE walkHist
     IN /\ ~called => ret = "nil"
        /\ IF FsKind(path) = "file"
           THEN Finish(AfterFsCallback(rest, path, TRUE, NoErr), h)
           ELSE IF err # NoErr
             THEN Finish(AfterFsCallback(rest, path, TRUE, err), h)
           ELSE IF ret # "nil"
             THEN Finish(AfterFsCallback(rest, path, TRUE, NewErr(ret)), h)
           ELSE IF ~isRoot(path)
             THEN Finish(AfterFsCallback(rest, path, FALSE, NoErr), h)
           ELSE IF scope.desired.Type <= TypeVersion /\ DOMAIN inv.Versions # {}
             THEN /\ walker' = [IdleWalker EXCEPT !.pc = "versions", !.stack = rest,
                                                 !.obj = path,
                                                 !.vers = DOMAIN inv.Versions]
                  /\ walkHist' = h
           ELSE Finish(AfterFsCallback(rest, path, TRUE, NoErr), h)
  /\ UNCHANGED <<scope, o2Inventory, crawl, cfg, diskVars, sessVars, hist, cpVars, metaVars>>

\* walkVersions that ranges over every version, head-only or not
VersionVisit_allVersions(v, ret) ==
  /\ walker.pc = "versions"
  /\ v \in walker.vers
  /\ LET inv == readMetadata(walker.obj).inv
         version == VersionRef(walker.obj, v)
         called == contains(version)
         h == IF called THEN Invoke(version, ret) ELSE walkHist
     IN /\ ~called => ret = "nil"
        /\ IF ret # "nil"
           THEN Finish(AfterFsCallback(walker.stack, walker.obj, TRUE, NewErr(ret)), h)
           ELSE IF scope.desired.Type > TypeFile
             THEN ContinueObject(walker.vers \ {v}, v, {}, h)
           ELSE \E res \in Files(inv, v) :
                  ContinueObject(walker.vers \ {v}, v, res.files, h)
  /\ UNCHANGED <<scope, o2Inventory, crawl, cfg, diskVars, sessVars, hist, cpVars, metaVars>>

\* walkVersions: one round of the loop over the versions, up to the loop
\* over the version's files
VersionVisit(v, ret) ==
  /\ walker.pc = "versions"
  /\ v \in walker.vers
  /\ LET inv == readMetadata(walker.obj).inv
         version == VersionRef(walker.obj, v)
         skipped == scope.desired.Head /\ v # inv.Head
         called == ~skipped /\ contains(version)
         h == IF called THEN Invoke(version, ret) ELSE walkHist
     IN /\ ~called => ret = "nil"
        /\ IF ret # "nil"
           THEN Finish(AfterFsCallback(walker.stack, walker.obj, TRUE, NewErr(ret)), h)
           ELSE IF skipped \/ scope.desired.Type > TypeFile
             THEN ContinueObject(walker.vers \ {v}, v, {}, h)
           ELSE \E res \in Files(inv, v) :
                  ContinueObject(walker.vers \ {v}, v, res.files, h)
  /\ UNCHANGED <<scope, o2Inventory, crawl, cfg, diskVars, sessVars, hist, cpVars, metaVars>>

\* walkVersions: one round of the loop over the files of a version
FileVisit(file, ret) ==
  /\ walker.pc = "files"
  /\ file \in walker.files
  /\ LET fileRef == FileRef(walker.obj, walker.curV, file)
         called == contains(fileRef)
         h == IF called THEN Invoke(fileRef, ret) ELSE walkHist
     IN /\ ~called => ret = "nil"
        /\ IF ret # "nil"
           THEN Finish(AfterFsCallback(walker.stack, walker.obj, TRUE, NewErr(ret)), h)
           ELSE ContinueObject(walker.vers, walker.curV, walker.files \ {file}, h)
  /\ UNCHANGED <<scope, o2Inventory, crawl, cfg, diskVars, sessVars, hist, cpVars, metaVars>>

\* no crawlForRoot is called
NoCrawl ==
  [pc |-> "idle", t |-> TypeAny, addr |-> <<>>, tree |-> <<>>, calls |-> <<>>,
   ref |-> <<>>, err |-> NoErr]

\* no walk is made
NoWalk ==
  /\ scope = [start |-> CHOOSE s \in WalkStarts : s.ref = <<RootNode>>,
              desired |-> [Type |-> TypeAny, Head |-> FALSE]]
  /\ walker = IdleWalker
  /\ walkHist = InitWalkHist
  /\ o2Inventory = "good"
  /\ crawl = NoCrawl

WalkStep ==
  \/ walk
  \/ \E ret \in CallbackReturns : EmitRoot(ret)
  \/ \E n \in FsNodes, ret \in CallbackReturns : FsVisit(n.path, ret)
  \/ \E v \in AllVids, ret \in CallbackReturns : VersionVisit(v, ret)
  \/ \E lp \in LPaths, pp \in PhysPaths \cup {EmptyPath}, d \in Digests,
         ret \in CallbackReturns :
       FileVisit([digest |-> d, LogicalPath |-> lp, PhysicalPath |-> pp], ret)

(* ============================ the cp command =========================== *)
\* capacity of the work queue q of doCopy
QueueCap == 1

IdleCp ==
  [pc |-> "idle",        \* "idle", "start", "scan", "wait", "commit" or "done"
   paths |-> <<>>,       \* scan: the paths not yet looked at
   q |-> <<>>,           \* the work queue
   qClosed |-> FALSE,    \* scan ran to its end and closed q
   cancelled |-> FALSE,  \* the producer channel is closed
   err |-> "nil",        \* what doCopy returns to cpAction
   putFailed |-> FALSE]  \* a Put of the copy returned an error

\* no cp command runs
NoCp == cp = IdleCp /\ cpW = [w \in Workers |-> "off"]

\* cpAction up to doCopy: the session is opened with Create and ocfl.NEW,
\* the Commit is deferred, doCopy starts its goroutines
cpAction ==
  /\ cp.pc = "start"
  /\ UNCHANGED walkVars
  /\ Open(TRUE, VersionNEW)
  /\ IF sOpen'
     THEN /\ cp' = [cp EXCEPT !.pc = "scan"]
          /\ cpW' = [w \in Workers |-> "recv"]
     ELSE /\ cp' = [cp EXCEPT !.pc = "done", !.err = "could not open session"]
          /\ UNCHANGED cpW

\* scan: one round of the loop over the paths. newRelativeFile may fail;
\* the select sends the file on q or finds the producer channel closed.
\* Both returns from inside the loop come before the defer close(q)
\* statement is reached: q stays open, and doCopy returns the error
\* without g.Wait()
scan(statOk, send) ==
  /\ cp.pc = "scan"
  /\ cp.paths # <<>>
  /\ IF ~statOk
     THEN cp' = [cp EXCEPT !.pc = "commit", !.err = "stat"]
     ELSE IF send
       THEN /\ Len(cp.q) < QueueCap
            /\ ~cp.qClosed
            /\ cp' = [cp EXCEPT !.paths = Tail(@), !.q = Append(@, Head(cp.paths))]
     ELSE /\ cp.cancelled
          /\ cp' = [cp EXCEPT !.pc = "commit", !.err = "file scan cancelled"]
  /\ UNCHANGED <<cfg, diskVars, sessVars, hist, cpW, walkVars, metaVars>>

\* scan after the last path: q is closed, doCopy goes on to g.Wait()
scanDone ==
  /\ cp.pc = "scan"
  /\ cp.paths = <<>>
  /\ cp' = [cp EXCEPT !.pc = "wait", !.qClosed = TRUE]
  /\ UNCHANGED <<cfg, diskVars, sessVars, hist, cpW, walkVars, metaVars>>

\* doCopy: g.Wait() returns once every goroutine has, with an error of theirs
doCopyWait ==
  /\ cp.pc = "wait"
  /\ \A w \in Workers : cpW[w] \in {"nil", "err"}
  /\ cp' = [cp EXCEPT !.pc = "commit",
                      !.err = IF \E w \in Workers : cpW[w] = "err"
                              THEN "worker" ELSE "nil"]
  /\ UNCHANGED <<cfg, diskVars, sessVars, hist, cpW, walkVars, metaVars>>

\* what a goroutine of doCopy does when the Put it called makes a step:
\* it goes on with the Put, or the Put returned nil and it receives again,
\* or the Put returned an error and it closes the producer channel
AfterPutStep(w) ==
  LET returned == wk'[w].pc = "idle"
      failed == returned /\ hist'.lastPut # "ok"
  IN /\ cpW' = [cpW EXCEPT ![w] = IF ~returned THEN "put"
                                  ELSE IF failed THEN "err" ELSE "recv"]
     /\ cp' = [cp EXCEPT !.cancelled = @ \/ failed, !.putFailed = @ \/ failed]

\* a goroutine of doCopy receives from q: a file, which it opens and Puts,
\* or the end of the closed queue
worker(w, openOk) ==
  /\ cpW[w] = "recv"
  /\ IF cp.q # <<>>
     THEN IF openOk
          THEN /\ PutBegin(w, Head(cp.q).lp, Head(cp.q).c)
               /\ LET returned == wk'[w].pc = "idle"
                  IN /\ cpW' = [cpW EXCEPT ![w] = IF returned THEN "err" ELSE "put"]
                     /\ cp' = [cp EXCEPT !.q = Tail(@),
                                         !.cancelled = @ \/ returned,
                                         !.putFailed = @ \/ returned]
          ELSE /\ cpW' = [cpW EXCEPT ![w] = "err"]
               /\ cp' = [cp EXCEPT !.q = Tail(@)]
               /\ UNCHANGED <<cfg, diskVars, sessVars, hist, walkVars, metaVars>>
     ELSE /\ cp.qClosed
          /\ openOk
          /\ cpW' = [cpW EXCEPT ![w] = "nil"]
          /\ UNCHANGED <<cfg, diskVars, sessVars, hist, cp, walkVars, metaVars>>

\* a goroutine of doCopy inside s.Put
workerPut(w) ==
  \/ cpW[w] = "put" /\ PutCopyOk(w) /\ AfterPutStep(w)
  \/ cpW[w] = "put" /\ PutCopyFail(w) /\ AfterPutStep(w)
  \/ cpW[w] = "put" /\ PutLock(w) /\ AfterPutStep(w)
  \/ \E closeOk \in BOOLEAN :
       cpW[w] = "put" /\ PutFinish(w, closeOk) /\ AfterPutStep(w)

\* cpAction returns: the deferred session.Commit runs, whatever doCopy
\* returned
AfterCommitStep ==
  /\ cp' = [cp EXCEPT !.pc = IF cpc' = "idle" THEN "done" ELSE "commit"]
  /\ UNCHANGED cpW

deferredCommit ==
  \/ cp.pc = "commit" /\ CommitBegin /\ AfterCommitStep
  \/ \E msg \in CommitMsgs : cp.pc = "commit" /\ CommitStamp(msg) /\ AfterCommitStep
  \/ cp.pc = "commit" /\ CommitOpenInventory /\ AfterCommitStep
  \/ \E out \in SerializeOutcomes :
       cp.pc = "commit" /\ CommitSerialize(out) /\ AfterCommitStep
  \/ cp.pc = "commit" /\ CommitOpenCopy /\ AfterCommitStep
  \/ cp.pc = "commit" /\ CommitCopyOk /\ AfterCommitStep
  \/ cp.pc = "commit" /\ CommitCopyFail /\ AfterCommitStep
  \/ cp.pc = "commit" /\ CommitCloseHash /\ AfterCommitStep
  \/ cp.pc = "commit" /\ writeNamaste /\ AfterCommitStep

CpStep ==
  \/ cpAction
  \/ \E statOk \in BOOLEAN, send \in BOOLEAN : scan(statOk, send)
  \/ scanDone
  \/ doCopyWait
  \/ \E w \in Workers, openOk \in BOOLEAN : worker(w, openOk)
  \/ \E w \in Workers : workerPut(w)
  \/ deferredCommit

(* ------------- Parse / Serialize (inventory.go, encoding/json) --------- *)
\* a Go map: nil, or holding the entries m
NilMap == [isNil |-> TRUE, m |-> EmptyMap]
GoMap(m) == [isNil |-> FALSE, m |-> m]

\* a time.Time: the instant, whether it carries a monotonic clock reading,
\* and its Location. The zero Time, a time.Now(), the same instant as
\* Commit stamps it (UTC, truncated), and an instant of the year 10000
ZeroTime == [instant |-> "0001-01-01T00:00:00", mono |-> FALSE, loc |-> "UTC"]

InvalidUTF8 == {"us\\xffer"}

\* the Inventory struct with all its fields; indexed stands for the
\* unexported stateIndex and manifestIndex being built
ZeroInventory ==
  [ID |-> "", Type |-> "", DigestAlgorithm |-> "", Head |-> <<>>,
   Manifest |-> NilMap, Versions |-> NilMap, Fixity |-> NilMap, indexed |-> FALSE]

\* JSON values
JNull == [t |-> "null"]
JStr(s) == [t |-> "string", s |-> s]
JObj(o) == [t |-> "object", o |-> o]

\* on a []string of paths
EncodePaths(paths) ==
  LET
    JArr(a) == [t |-> "array", a |-> a]
  IN
  JArr([i \in DOMAIN paths |-> JStr(paths[i])])

\* on a Manifest, were a nil map encoded as {}
EncodeManifest_nilAsEmpty(gm) == JObj([k \in DOMAIN gm.m |-> EncodePaths(gm.m[k])])
\* on a Manifest (a map): null when nil, else an object of the encoded
\* entries
EncodeManifest(gm) ==
  IF gm.isNil THEN JNull ELSE JObj([k \in DOMAIN gm.m |-> EncodePaths(gm.m[k])])

\* Time.MarshalJSON fails for a year outside [0, 9999]
Marshalable(x) ==
  \A v \in DOMAIN x.Versions.m :
    x.Versions.m[v].Created.instant # "10000-01-01T00:00:00"

\* Inventory.Serialize: json.NewEncoder(w).Encode(i); the unexported
\* indexes are not encoded
Serialize(x) ==
  LET
    \* encoding/json on a string: bytes that are not UTF-8 become U+FFFD
    EncodeString(s) == JStr(IF s \in InvalidUTF8 THEN "us\\ufffder" ELSE s)
    \* Time.MarshalJSON: RFC 3339 with nanoseconds and the zone offset; the
    \* monotonic reading is not part of it
    EncodeTime(tm) ==
      JStr([instant |-> tm.instant, offset |-> IF tm.loc = "UTC" THEN "Z" ELSE "+01:00"])
    EncodeVersion(v) ==
      JObj([created |-> EncodeTime(v.Created), message |-> EncodeString(v.Message),
            user |-> JObj([name |-> EncodeString(v.User.Name),
                           address |-> EncodeString(v.User.Address)]),
            state |-> EncodeManifest(v.State)])
    EncodeVersions(gm) ==
      IF gm.isNil THEN JNull ELSE JObj([k \in DOMAIN gm.m |-> EncodeVersion(gm.m[k])])
    EncodeFixity(gm) ==
      IF gm.isNil THEN JNull ELSE JObj([k \in DOMAIN gm.m |-> EncodeManifest(gm.m[k])])
  IN
  IF ~Marshalable(x) THEN [ok |-> FALSE, doc |-> JNull]
  ELSE [ok |-> TRUE,
        doc |-> JObj([id |-> EncodeString(x.ID), type |-> EncodeString(x.Type),
                      digestAlgorithm |-> EncodeString(x.DigestAlgorithm),
                      head |-> JStr(x.Head),
                      manifest |-> EncodeManifest(x.Manifest),
                      versions |-> EncodeVersions(x.Versions),
                      fixity |-> EncodeFixity(x.Fixity)])]

\* metadata.Parse(r, &Inventory{})
Parse(doc) ==
  LET
    \* json.Decoder into a zero value: null leaves the zero value
    DecodeString(j, zero) == IF j.t = "string" THEN j.s ELSE zero
    \* a map: made when the value is an object, left nil when it is null
    DecodeManifest(j) ==
      LET
        DecodePaths(l) == IF l.t = "array" THEN [i \in DOMAIN l.a |-> DecodeString(l.a[i], "")]
                          ELSE <<>>
      IN
      IF j.t = "object" THEN GoMap([k \in DOMAIN j.o |-> DecodePaths(j.o[k])]) ELSE NilMap
    \* the member of a JSON object, null when the key is missing
    Member(j, key) == IF key \in DOMAIN j.o THEN j.o[key] ELSE JNull
    \* Time.UnmarshalJSON: the Location is UTC for offset Z, else Local or a
    \* fixed zone; there is no monotonic reading
    DecodeTime(j) ==
      IF j.t = "string"
      THEN [instant |-> j.s.instant, mono |-> FALSE,
            loc |-> IF j.s.offset = "Z" THEN "UTC" ELSE "Local"]
      ELSE ZeroTime
    DecodeVersion(j) ==
      [Created |-> DecodeTime(Member(j, "created")),
       Message |-> DecodeString(Member(j, "message"), ""),
       User |-> [Name |-> DecodeString(Member(Member(j, "user"), "name"), ""),
                 Address |-> DecodeString(Member(Member(j, "user"), "address"), "")],
       State |-> DecodeManifest(Member(j, "state"))]
    DecodeVersions(j) ==
      IF j.t = "object" THEN GoMap([k \in DOMAIN j.o |-> DecodeVersion(j.o[k])]) ELSE NilMap
    DecodeFixity(j) ==
      IF j.t = "object" THEN GoMap([k \in DOMAIN j.o |-> DecodeManifest(j.o[k])]) ELSE NilMap
  IN
  IF doc.t # "object" THEN [ok |-> FALSE, inv |-> ZeroInventory]
  ELSE [ok |-> TRUE,
        inv |-> [ID |-> DecodeString(Member(doc, "id"), ""),
                 Type |-> DecodeString(Member(doc, "type"), ""),
                 DigestAlgorithm |-> DecodeString(Member(doc, "digestAlgorithm"), ""),
                 Head |-> DecodeString(Member(doc, "head"), <<>>),
                 Manifest |-> DecodeManifest(Member(doc, "manifest")),
                 Versions |-> DecodeVersions(Member(doc, "versions")),
                 Fixity |-> DecodeFixity(Member(doc, "fixity")),
                 indexed |-> FALSE]]

(* ------------- callers of the metadata package (inventory.go) ---------- *)
\* no call has been made; version holds the name a caller is about to use
NoCall ==
  [op |-> "none", ok |-> TRUE, err |-> "none", lp |-> "a", pp |-> EmptyPath,
   digest |-> "d1", version |-> <<>>, files |-> {}, out |-> <<>>,
   loc |-> <<>>,      \* the location given to resolve
   repeat |-> FALSE,  \* the call repeats, argument for argument, the
                      \* successful AddFile made just before it
   given |-> ZeroInventory,   \* the struct handed to Serialize
   parsed |-> ZeroInventory]  \* the struct Parse filled

\* the inventory of a session that has initialized an object and put nothing
StagedInventory == setupVersion(NewInventory, VersionHEAD, NewInventory.Head).inv

\* the inventories a caller may hold before its first call
Inventories ==
  LET
    \* the versions whose content directories hold the copies of one content
    CopyVersions == {V1, V2, <<"v", "9">>, <<"v", "1", "0">>}
    \* the lists of physical paths a Manifest may give that content's digest:
    \* none, one, or two in either order
    CopyLists ==
      {<<>>}
      \cup {<<p>> : p \in [ver : CopyVersions, lp : {"a"}]}
      \cup ({<<p, q>> : p, q \in [ver : CopyVersions, lp : {"a"}]}
              \ {<<p, p>> : p \in PhysPaths})
    \* an inventory read from an object of FixtureHead versions, each of which
    \* records logical path "a" under digest d1
    InventoryWith(manifest) ==
      [Head |-> FormatVersion(FixtureHead, 0), Manifest |-> manifest,
       Versions |-> [v \in {FormatVersion(k, 0) : k \in 1..FixtureHead} |->
                       [State |-> ("d1" :> <<"a">>), meta |-> "m1"]]]
  IN
  {StagedInventory, InventoryWith(EmptyMap)}
  \cup {InventoryWith("d1" :> l) : l \in CopyLists}

\* i.AddFile(lp, pp, d)
AddFileCall(lp, pp, d) ==
  /\ LET r == AddFile(mInv, lp, pp, d)
     IN /\ mInv' = r.inv
        /\ mCall' = [NoCall EXCEPT !.op = "AddFile", !.ok = r.ok, !.err = r.err,
                                   !.lp = lp, !.pp = pp, !.digest = d,
                                   !.repeat = /\ mCall.op = "AddFile" /\ mCall.ok
                                              /\ mCall.lp = lp /\ mCall.pp = pp
                                              /\ mCall.digest = d]
  /\ UNCHANGED <<cfg, diskVars, sessVars, hist, walkVars, cpVars>>

\* i.Files(version)
FilesCall(version) ==
  /\ \E r \in Files(mInv, version) :
       mCall' = [NoCall EXCEPT !.op = "Files", !.ok = r.ok, !.err = r.err,
                               !.version = version, !.files = r.files]
  /\ UNCHANGED <<mInv, cfg, diskVars, sessVars, hist, walkVars, cpVars>>

\* x.Serialize(w), then metadata.Parse(r, &deserialized) on what was written
RoundTripCall(x) ==
  /\ LET ser == Serialize(x)
         par == IF ser.ok THEN Parse(ser.doc) ELSE [ok |-> FALSE, inv |-> ZeroInventory]
     IN mCall' = [NoCall EXCEPT !.op = "RoundTrip", !.ok = ser.ok /\ par.ok,
                                !.err = IF ~ser.ok THEN "Time.MarshalJSON"
                                        ELSE IF ~par.ok THEN "Could not decode json inventory"
                                        ELSE "none",
                                !.given = x, !.parsed = par.inv]
  /\ UNCHANGED <<mInv, cfg, diskVars, sessVars, hist, walkVars, cpVars>>

MaxNameLen == 4

\* VersionID(name).Increment()
IncrementCall ==
  /\ mCall.op = "none"
  /\ LET r == Increment(mCall.version)
     IN mCall' = [mCall EXCEPT !.op = "Increment", !.ok = r.ok, !.out = r.id,
                               !.err = IF r.ok THEN "none" ELSE "not a valid OCFL version"]
  /\ UNCHANGED <<mInv, cfg, diskVars, sessVars, hist, walkVars, cpVars>>

\* the metadata package is not called
NoMeta == mInv = StagedInventory /\ mCall = NoCall

(* ------------------------- resolve (resolve.go) ------------------------ *)
V3 == <<"v", "3">>

\* a Manifest entry as a path relative to the object root
RelPath(p) == p.ver \o <<"content", p.lp>>

\* findDigest that takes any digest of the Manifest
findDigest_anyDigest(inv, path) == DOMAIN inv.Manifest

\* findDigest(inv, path): the digests it may return. The Manifest is ranged
\* over in an unspecified order and the first digest that lists the path
\* is returned; the empty digest ("") when none lists it
findDigest(inv, path) ==
  LET ds == {d \in DOMAIN inv.Manifest :
               \E i \in DOMAIN inv.Manifest[d] : RelPath(inv.Manifest[d][i]) = path}
  IN IF ds = {} THEN {""} ELSE ds

\* resolve(loc), inv being the inventory.json of the object root above loc:
\* the results it may return; refs holds each EntityRef with the number of
\* times it is in the slice
resolve(loc, inv) ==
  LET
    \* crawlForRoot(loc/_, ocfl.Any): the nearest directory at or above loc
    \* that holds a root marker, as an EntityRef without Parent
    crawlForRoot(at) ==
      LET roots == {r \in ObjectRoots \cup {RootAddr} :
                      Len(r) <= Len(at) /\ SubSeq(at, 1, Len(r)) = r}
      IN IF roots = {} THEN [ok |-> FALSE, ref |-> <<>>]
         ELSE LET r == CHOOSE x \in roots : \A y \in roots : Len(y) <= Len(x)
              IN [ok |-> TRUE,
                  ref |-> <<Node(IF r = RootAddr THEN TypeRoot ELSE TypeObject, <<>>, r)>>]
    \* the first directory name of a path below an object root (version names
    \* are spelled letter by letter)
    FirstSegment(rel) ==
      IF \E i \in DOMAIN rel : rel[i] = "content"
      THEN SubSeq(rel, 1, (CHOOSE i \in DOMAIN rel : rel[i] = "content") - 1)
      ELSE rel
  IN
  LET found == crawlForRoot(loc)
      root == found.ref[1].Addr
      rootRef == IF found.ref[1].Type = TypeObject
                 THEN <<Node(TypeObject, ObjectID(root), root)>> ELSE found.ref
      rel == SubSeq(loc, Len(root) + 1, Len(loc))
      versionID == FirstSegment(rel)
      version == <<Node(TypeVersion, versionID, root \o versionID)>> \o rootRef
      Once(ref) == [ok |-> TRUE, refs |-> {[ref |-> ref, n |-> 1]}]
  IN IF ~found.ok THEN {[ok |-> FALSE, refs |-> {}]}
     ELSE IF root = loc THEN {Once(rootRef)}
     ELSE IF rootRef[1].Type = TypeRoot
       THEN {Once(<<Node(TypeIntermediate, rel, loc)>> \o rootRef)}
     ELSE IF root \o versionID = loc THEN {Once(version)}
     ELSE {[ok |-> TRUE,
            refs |-> UNION {
              {[ref |-> <<Node(TypeFile, <<lp>>, loc),
                          Node(TypeVersion, v, root \o v)>> \o rootRef,
                n |-> Cardinality({i \in DOMAIN inv.Versions[v].State[digest] :
                                     inv.Versions[v].State[digest][i] = lp})] :
                 lp \in Range(inv.Versions[v].State[digest])} :
              v \in {w \in DOMAIN inv.Versions : digest \in DOMAIN inv.Versions[w].State}}] :
           digest \in findDigest(inv, rel)}

\* resolve(loc) on a location at or below o1, whose inventory.json holds mInv
ResolveCall(loc) ==
  /\ \E r \in resolve(loc, mInv) :
       mCall' = [NoCall EXCEPT !.op = "resolve", !.ok = r.ok, !.loc = loc,
                               !.files = r.refs]
  /\ UNCHANGED <<mInv, cfg, diskVars, sessVars, hist, walkVars, cpVars>>

(* ------------------- isRoot / crawlForRoot (resolve.go) ---------------- *)
\* the directory crawlForRoot is called on, under the filesystem root <<>>
CrawlStart == <<"a", "b", "c">>

\* filepath.Dir on an absolute path: the parent, and / for /
Dir(path) == IF path = <<>> THEN <<>> ELSE SubSeq(path, 1, Len(path) - 1)

\* isRoot(path, t): found, the type, the error. crawl.tree holds for each
\* directory what os.Stat returns for it ("dir", "file", "enoent", or "eio"
\* for any other failure) and for the two marker files in it ("regular",
\* "dir" for a marker name that is not a regular file, "enoent", "eio")
isRoot(path, t) ==
  LET node == crawl.tree[path]
      OneType(tt) ==
        LET namaste == IF tt = TypeRoot THEN node.root ELSE node.object
        IN IF node.stat = "enoent"
             THEN [found |-> FALSE, typ |-> tt, err |-> NewErr("no such file or directory")]
           ELSE IF node.stat = "eio"
             THEN [found |-> FALSE, typ |-> tt, err |-> NewErr("permission denied")]
           ELSE IF node.stat = "file"
             THEN [found |-> FALSE, typ |-> tt, err |-> NoErr]
           ELSE IF namaste = "eio"
             THEN [found |-> FALSE, typ |-> tt,
                   err |-> Wrap(NewErr("permission denied"), "error detecting namaste file")]
           ELSE [found |-> namaste = "regular", typ |-> tt, err |-> NoErr]
  IN IF t \in {TypeRoot, TypeObject} THEN OneType(t)
     ELSE IF t = TypeAny
       THEN IF OneType(TypeRoot).found THEN OneType(TypeRoot) ELSE OneType(TypeObject)
     ELSE [found |-> FALSE, typ |-> t, err |-> NoErr]

\* crawlForRoot that returns the directory it came from, not the parent
\* that carries the marker
crawlForRoot_childAddr ==
  /\ crawl.pc = "run"
  /\ LET addr == crawl.addr
         parent == Dir(addr)
         r == isRoot(parent, crawl.t)
         called == [crawl EXCEPT !.calls = Append(@, [path |-> parent, res |-> r])]
     IN crawl' =
          IF r.err # NoErr
            THEN [called EXCEPT !.pc = "done",
                                !.err = Wrap(r.err, "error detecting OCFL root")]
          ELSE IF ~r.found /\ parent = addr
            THEN [called EXCEPT !.pc = "done",
                                !.err = NewErr("no ocfl root found crawling up to /")]
          ELSE IF ~r.found THEN [called EXCEPT !.addr = parent]
          ELSE [called EXCEPT !.pc = "done", !.ref = <<Node(r.typ, <<>>, addr)>>]
  /\ UNCHANGED <<scope, walker, walkHist, o2Inventory, cfg, diskVars, sessVars, hist,
                 cpVars, metaVars>>

\* crawlForRoot(loc, t): one level of the recursion, with the isRoot call
\* it makes on the parent of loc
crawlForRoot ==
  /\ crawl.pc = "run"
  /\ LET addr == crawl.addr
         parent == Dir(addr)
         r == isRoot(parent, crawl.t)
         called == [crawl EXCEPT !.calls = Append(@, [path |-> parent, res |-> r])]
     IN crawl' =
          IF r.err # NoErr
            THEN [called EXCEPT !.pc = "done",
                                !.err = Wrap(r.err, "error detecting OCFL root")]
          ELSE IF ~r.found /\ parent = addr
            THEN [called EXCEPT !.pc = "done",
                                !.err = NewErr("no ocfl root found crawling up to /")]
          ELSE IF ~r.found THEN [called EXCEPT !.addr = parent]
          ELSE [called EXCEPT !.pc = "done", !.ref = <<Node(r.typ, <<>>, parent)>>]
  /\ UNCHANGED <<scope, walker, walkHist, o2Inventory, cfg, diskVars, sessVars, hist,
                 cpVars, metaVars>>

(* --------- callers of AtomicWrite / SafeWrite (ManagedWrite) ----------- *)
\* AtomicWrite(path) (safe = FALSE) or SafeWrite(path) by goroutine w, who
\* will write content c through the handle; the path is v1/content/a
Begin(w, c, safe) ==
  /\ wk[w].pc = "idle"
  /\ LET pp == filePaths("a")
         mode == IF safe THEN SafeWrite(pp) ELSE AtomicWrite(pp)
         created == [data |-> "none", st |-> "empty", owner |-> w]
     IN /\ content' = IF mode = "direct" THEN [content EXCEPT ![pp] = created]
                      ELSE content
        /\ contentTmp' = IF mode = "atomic" THEN [contentTmp EXCEPT ![pp] = created]
                         ELSE contentTmp
        /\ wk' = IF mode = "error" THEN wk
                 ELSE [wk EXCEPT ![w] = [pc |-> "writing", lp |-> "a", c |-> c,
                                         handle |-> mode, before |-> content[pp]]]
        /\ mCall' = [NoCall EXCEPT !.op = IF safe THEN "SafeWrite" ELSE "AtomicWrite",
                                   !.ok = mode # "error"]
  /\ UNCHANGED <<cfg, objDir, vdirs, marker, invFile, invTmp, hashFile, hashTmp,
                 sOpen, sMode, sVersion, sCommitfunc, sInv, mutex, cpc, hist,
                 walkVars, cpVars, mInv>>

\* a Write on the handle: the bytes go into the file the descriptor is
\* open on, first a part of the content, then the rest
Write(w) ==
  /\ wk[w].pc = "writing"
  /\ LET pp == filePaths(wk[w].lp)
         file == IF wk[w].handle = "direct" THEN content[pp] ELSE contentTmp[pp]
         written == [data |-> wk[w].c,
                     st |-> IF file.st = "empty" THEN "partial" ELSE "complete",
                     owner |-> w]
     IN /\ file.owner = w
        /\ file.st \in {"empty", "partial"}
        /\ content' = IF wk[w].handle = "direct" THEN [content EXCEPT ![pp] = written]
                      ELSE content
        /\ contentTmp' = IF wk[w].handle = "atomic"
                         THEN [contentTmp EXCEPT ![pp] = written] ELSE contentTmp
  /\ mCall' = [NoCall EXCEPT !.op = "Write"]
  /\ UNCHANGED <<cfg, objDir, vdirs, marker, invFile, invTmp, hashFile, hashTmp,
                 sOpen, sMode, sVersion, sCommitfunc, sInv, mutex, wk, cpc, hist,
                 walkVars, cpVars, mInv>>

\* closeWith that runs neither closeFunc nor rollbackFunc
closeWith_noFunc(w, f, closeOk) ==
  /\ wk[w].pc \in {"writing", "closed", "broken"}
  /\ LET pp == filePaths(wk[w].lp)
         fails == wk[w].pc = "broken" \/ ~closeOk
         Release(file) == IF file.owner = w THEN [file EXCEPT !.owner = "none"] ELSE file
     IN /\ content' = IF wk[w].pc = "closed" THEN content
                      ELSE [content EXCEPT ![pp] = Release(@)]
        /\ contentTmp' = IF wk[w].pc = "closed" THEN contentTmp
                         ELSE [contentTmp EXCEPT ![pp] = Release(@)]
        /\ wk' = IF wk[w].pc = "closed" THEN wk
                 ELSE [wk EXCEPT ![w].pc = IF fails THEN "broken" ELSE "closed"]
        /\ mCall' = [NoCall EXCEPT !.op = f, !.ok = wk[w].pc = "closed" \/ ~fails]
  /\ UNCHANGED <<cfg, objDir, vdirs, marker, invFile, invTmp, hashFile, hashTmp,
                 sOpen, sMode, sVersion, sCommitfunc, sInv, mutex, cpc, hist,
                 walkVars, cpVars, mInv>>

\* ManagedWrite.Close (f = "Close": closeFunc) and ManagedWrite.Rollback
\* (f = "Rollback": rollbackFunc), both closeWith. A closed handle returns
\* nil at once. The descriptor is closed first: when that fails
\* (closeOk = FALSE, or it was closed by a call that failed before) the
\* error is returned, closed is not set and f does not run. closeFunc is the
\* rename of the temporary onto the path (nil for a direct handle),
\* rollbackFunc the os.Remove of the temporary, or of the path for a direct
\* handle.
closeWith(w, f, closeOk) ==
  /\ wk[w].pc \in {"writing", "closed", "broken"}
  /\ LET pp == filePaths(wk[w].lp)
         fails == wk[w].pc = "broken" \/ ~closeOk
         Release(file) == IF file.owner = w THEN [file EXCEPT !.owner = "none"] ELSE file
         atomic == wk[w].handle = "atomic"
     IN IF wk[w].pc = "closed"
        THEN /\ mCall' = [NoCall EXCEPT !.op = f]
             /\ UNCHANGED <<content, contentTmp, wk>>
        ELSE IF fails
          THEN /\ content' = [content EXCEPT ![pp] = Release(@)]
               /\ contentTmp' = [contentTmp EXCEPT ![pp] = Release(@)]
               /\ wk' = [wk EXCEPT ![w].pc = "broken"]
               /\ mCall' = [NoCall EXCEPT !.op = f, !.ok = FALSE]
        ELSE /\ wk' = [wk EXCEPT ![w].pc = "closed"]
             /\ IF f = "Close"
                THEN /\ content' =
                          IF atomic /\ contentTmp[pp] # NoFile
                          THEN [content EXCEPT ![pp] = Release(contentTmp[pp])]
                          ELSE [content EXCEPT ![pp] = Release(@)]
                     /\ contentTmp' = IF atomic THEN [contentTmp EXCEPT ![pp] = NoFile]
                                      ELSE contentTmp
                     /\ mCall' = [NoCall EXCEPT !.op = f,
                                                !.ok = ~atomic \/ contentTmp[pp] # NoFile]
                ELSE /\ content' = IF atomic THEN content
                                   ELSE [content EXCEPT ![pp] = NoFile]
                     /\ contentTmp' = IF atomic THEN [contentTmp EXCEPT ![pp] = NoFile]
                                      ELSE contentTmp
                     /\ mCall' = [NoCall EXCEPT
                                    !.op = f,
                                    !.ok = IF atomic THEN contentTmp[pp] # NoFile
                                           ELSE content[pp] # NoFile]
  /\ UNCHANGED <<cfg, objDir, vdirs, marker, invFile, invTmp, hashFile, hashTmp,
                 sOpen, sMode, sVersion, sCommitfunc, sInv, mutex, cpc, hist,
                 walkVars, cpVars, mInv>>

(* ============================ specifications =========================== *)
\* the session: any caller's Open, Put and Commit calls on one object
Init ==
  LET
    \* fs.Config: a path function is set (TRUE) or nil (FALSE)
    Configs == [ObjectPathFunc : BOOLEAN, FilePathFunc : BOOLEAN]
    \* the inventory of an object whose versions v1..vn were each committed
    \* by one session that put nothing
    InvUpTo(n) ==
      [Head |-> FormatVersion(n, 0), Manifest |-> EmptyMap,
       Versions |-> [v \in {FormatVersion(k, 0) : k \in 1..n} |->
                       [State |-> EmptyMap, meta |-> "m1"]]]
    \* an OCFL root holding that object after FixtureHead such sessions
    FixtureDisk ==
      /\ objDir = TRUE
      /\ vdirs = {FormatVersion(k, 0) : k \in 1..FixtureHead}
      /\ marker = TRUE
      /\ content = [p \in PhysPaths |-> NoFile]
      /\ contentTmp = [p \in PhysPaths |-> NoFile]
      /\ invFile = [d \in Dirs |->
                     IF d = RootDir THEN InvBytes("complete", InvUpTo(FixtureHead))
                     ELSE IF IntOf(d).val <= FixtureHead
                     THEN InvBytes("complete", InvUpTo(IntOf(d).val)) ELSE NoInv]
      /\ invTmp = [d \in Dirs |-> NoInv]
      /\ hashFile = invFile
      /\ hashTmp = [d \in Dirs |-> NoInv]
  IN
  /\ cfg \in Configs
  /\ InitDisk \/ FixtureDisk
  /\ InitSession
  /\ hist = InitHist
  /\ NoWalk
  /\ NoCp
  /\ NoMeta

Next ==
  \/ \E create \in BOOLEAN, ver \in OpenVersions : Open(create, ver)
  \/ PutStep
  \/ CommitStep
  \/ Abandon

Spec == Init /\ [][Next]_vars

\* Driver.Walk over the OCFL root of the test data, for every start, every
\* Select and every callback
WalkInit ==
  LET
    Types == TypeAny..TypeRoot
    \* ocfl.Select
    Selects == [Type : Types, Head : BOOLEAN]
    Scopes == [start : WalkStarts, desired : Selects]
  IN
  /\ cfg = [ObjectPathFunc |-> TRUE, FilePathFunc |-> TRUE]
  /\ InitDisk
  /\ InitSession
  /\ hist = InitHist
  /\ scope \in Scopes
  /\ walker = IdleWalker
  /\ walkHist = InitWalkHist
  /\ o2Inventory = "good"
  /\ crawl = NoCrawl
  /\ NoCp
  /\ NoMeta

WalkNext == WalkStep

WalkSpec == WalkInit /\ [][WalkNext]_vars

\* ocfl cp src... dest into an empty OCFL root
CpInit ==
  LET
    \* a source file named on the command line: the logical path it is copied
    \* to (relativeFile.relative) and its content
    SrcFiles == [lp : LPaths, c : Contents]
    \* the src arguments of cp
    CpArgs == UNION {[1..n -> SrcFiles] : n \in 1..MaxPuts}
  IN
  /\ cfg = [ObjectPathFunc |-> TRUE, FilePathFunc |-> TRUE]
  /\ InitDisk
  /\ InitSession
  /\ hist = InitHist
  /\ NoWalk
  /\ \E args \in CpArgs : cp = [IdleCp EXCEPT !.pc = "start", !.paths = args]
  /\ cpW = [w \in Workers |-> "off"]
  /\ NoMeta

CpNext == CpStep

CpSpec == CpInit /\ [][CpNext]_vars

\* the cp command under the Go scheduler: a goroutine that can make a step
\* eventually makes one; cpAction with scan, each goroutine of doCopy
CpLiveSpec ==
  /\ CpInit
  /\ [][CpNext]_vars
  /\ WF_vars(cpAction)
  /\ WF_vars(\E statOk \in BOOLEAN, send \in BOOLEAN : scan(statOk, send))
  /\ WF_vars(scanDone)
  /\ WF_vars(doCopyWait)
  /\ WF_vars(deferredCommit)
  /\ \A w \in Workers :
       WF_vars((\E openOk \in BOOLEAN : worker(w, openOk)) \/ workerPut(w))

\* a caller of the inventory model: AddFile and Files on one inventory
InvInit ==
  /\ cfg = [ObjectPathFunc |-> TRUE, FilePathFunc |-> TRUE]
  /\ InitDisk
  /\ InitSession
  /\ hist = InitHist
  /\ NoWalk
  /\ NoCp
  /\ mInv \in Inventories
  /\ mCall = NoCall

InvNext ==
  LET
    \* the version names callers pass: the versions of the object, and one
    \* that is not a version of it
    FilesVersions == AllVids \cup {FormatVersion(FixtureHead + 1, 0)}
  IN
  \/ \E lp \in LPaths, pp \in [ver : {V1}, lp : LPaths], d \in Digests :
       AddFileCall(lp, pp, d)
  \/ \E version \in FilesVersions : FilesCall(version)

InvSpec == InvInit /\ [][InvNext]_vars

\* a caller that serializes an inventory and parses what was written
RoundTripInit ==
  /\ cfg = [ObjectPathFunc |-> TRUE, FilePathFunc |-> TRUE]
  /\ InitDisk
  /\ InitSession
  /\ hist = InitHist
  /\ NoWalk
  /\ NoCp
  /\ mInv \in Inventories
  /\ mCall = NoCall

RoundTripNext ==
  LET
    \* the struct a caller serializes: a fresh NewInventory, or the inventory
    \* it holds, with some Fixity, Created time and user name, its indexes
    \* built or not
    StructOf(fresh, kind, created, name, indexed) ==
      LET
        \* metadata.NewInventory(id) as a struct: v1 has a Created time and nothing
        \* else, so its State is a nil map, and so is Fixity
        NewInventoryStruct ==
          [ID |-> "urn:test/myObj", Type |-> "Object", DigestAlgorithm |-> "sha512",
           Head |-> V1, Manifest |-> GoMap(EmptyMap),
           Versions |-> GoMap(V1 :> [Created |-> [instant |-> "t1", mono |-> TRUE, loc |-> "Local"],
                                    Message |-> "", User |-> [Name |-> "", Address |-> ""],
                                    State |-> NilMap]),
           Fixity |-> NilMap, indexed |-> FALSE]
        \* the struct of an inventory whose maps are all made, with the given
        \* Fixity, Created times and user name
        InventoryStruct(inv, fixity, at, user, idx) ==
          [ID |-> "urn:test/myObj", Type |-> "Object", DigestAlgorithm |-> "sha512",
           Head |-> inv.Head, Manifest |-> GoMap(inv.Manifest),
           Versions |-> GoMap([v \in DOMAIN inv.Versions |->
                                 [Created |-> at, Message |-> inv.Versions[v].meta,
                                  User |-> [Name |-> user, Address |-> "address"],
                                  State |-> GoMap(inv.Versions[v].State)]]),
           Fixity |-> fixity, indexed |-> idx]
        FixityOf(k, inv) ==
          IF k = "nil" THEN NilMap
          ELSE IF k = "one" THEN GoMap("sha256" :> GoMap(inv.Manifest))
          ELSE GoMap(("sha256" :> GoMap(inv.Manifest)) @@ ("md5" :> GoMap(inv.Manifest)))
      IN
      IF fresh THEN NewInventoryStruct
      ELSE InventoryStruct(mInv, FixityOf(kind, mInv), created, name, indexed)
    Times ==
      {ZeroTime,
       [instant |-> "t1", mono |-> TRUE, loc |-> "Local"],
       [instant |-> "t1", mono |-> FALSE, loc |-> "UTC"],
       [instant |-> "10000-01-01T00:00:00", mono |-> FALSE, loc |-> "UTC"]}
    \* user names: one of them is not valid UTF-8
    UserNames == {"user", "us\\xffer"}
    \* Fixity values: nil, one algorithm, several algorithms
    FixityKinds == {"nil", "one", "several"}
  IN
  \E fresh \in BOOLEAN, kind \in FixityKinds, created \in Times, name \in UserNames,
     indexed \in BOOLEAN :
    RoundTripCall(StructOf(fresh, kind, created, name, indexed))

RoundTripSpec == RoundTripInit /\ [][RoundTripNext]_vars

\* walks over the root when the inventory.json of o2 is missing, corrupt or
\* inconsistent; no walk starts inside o2, whose inventory resolve could
\* not have read
BadWalkInit ==
  /\ cfg = [ObjectPathFunc |-> TRUE, FilePathFunc |-> TRUE]
  /\ InitDisk
  /\ InitSession
  /\ hist = InitHist
  /\ scope \in [start : {s \in WalkStarts : \A i \in DOMAIN s.ent :
                                               s.ent[i].Addr # Obj2Addr},
                desired : [Type : TypeAny..TypeRoot, Head : BOOLEAN]]
  /\ walker = IdleWalker
  /\ walkHist = InitWalkHist
  /\ o2Inventory \in {"missing", "corrupt", "inconsistent"}
  /\ crawl = NoCrawl
  /\ NoCp
  /\ NoMeta

BadWalkSpec == BadWalkInit /\ [][WalkNext]_vars

\* two goroutines that each begin one durable write to the same path,
\* write through the handle and call Close and Rollback on it; before, the
\* path may hold previous content and a temporary may be in the way
WriteInit ==
  LET pp == [ver |-> V1, lp |-> "a"]
      previous == [data |-> "c1", st |-> "complete", owner |-> "none"]
      none == [p \in PhysPaths |-> NoFile]
  IN
  /\ cfg = [ObjectPathFunc |-> TRUE, FilePathFunc |-> TRUE]
  /\ objDir = TRUE
  /\ vdirs = {V1}
  /\ marker = FALSE
  /\ content \in {none, [none EXCEPT ![pp] = previous]}
  /\ contentTmp \in {none, [none EXCEPT ![pp] = previous]}
  /\ invFile = [d \in Dirs |-> NoInv]
  /\ invTmp = [d \in Dirs |-> NoInv]
  /\ hashFile = [d \in Dirs |-> NoInv]
  /\ hashTmp = [d \in Dirs |-> NoInv]
  /\ InitSession
  /\ hist = InitHist
  /\ NoWalk
  /\ NoCp
  /\ NoMeta

WriteNext ==
  \/ \E w \in Workers, safe \in BOOLEAN : Begin(w, "c2", safe)
  \/ \E w \in Workers : Write(w)
  \/ \E w \in Workers, f \in {"Close", "Rollback"}, closeOk \in BOOLEAN :
       closeWith(w, f, closeOk)

WriteSpec == WriteInit /\ [][WriteNext]_vars

\* resolve on the locations at and below object o1
ResolveInit ==
  LET
    \* the States a version of object o1 may have: each digest lists logical
    \* paths, no logical path under both digests
    PathLists == {<<>>, <<"a">>, <<"b">>, <<"a", "b">>}
    States ==
      {[d \in {d \in Digests : s[d] # <<>>} |-> s[d]] :
         s \in {t \in [Digests -> PathLists] : Range(t["d1"]) \cap Range(t["d2"]) = {}}}
    \* the inventories of o1 a resolve may find: three versions, content of
    \* digest d1 at v1/content/a (and maybe at v2/content/a too), of d2 at
    \* v2/content/b
    ResolveInventories ==
      {[Head |-> V3,
        Manifest |-> ("d1" :> l) @@ ("d2" :> <<[ver |-> V2, lp |-> "b"]>>),
        Versions |-> (V1 :> [State |-> s1, meta |-> "m1"]) @@
                     (V2 :> [State |-> s2, meta |-> "m1"]) @@
                     (V3 :> [State |-> s3, meta |-> "m1"])] :
         l \in {<<[ver |-> V1, lp |-> "a"]>>,
                <<[ver |-> V1, lp |-> "a"], [ver |-> V2, lp |-> "a"]>>},
         s1 \in States, s2 \in States, s3 \in States}
  IN
  /\ cfg = [ObjectPathFunc |-> TRUE, FilePathFunc |-> TRUE]
  /\ InitDisk
  /\ InitSession
  /\ hist = InitHist
  /\ NoWalk
  /\ NoCp
  /\ mInv \in ResolveInventories
  /\ mCall = NoCall

ResolveNext ==
  LET
    \* the locations given to resolve: the OCFL root, a directory above o1, o1,
    \* a version of it, its inventory.json, a content directory, and content
    \* files, one of which the Manifest does not list
    ResolveLocs ==
      {RootAddr, <<"root", "i">>, Obj1Addr, Obj1Addr \o V1,
       Obj1Addr \o <<"inventory.json">>,
       Obj1Addr \o V1 \o <<"content">>,
       Obj1Addr \o V1 \o <<"content", "a">>,
       Obj1Addr \o V2 \o <<"content", "a">>,
       Obj1Addr \o V2 \o <<"content", "b">>,
       Obj1Addr \o V3 \o <<"content", "b">>}
  IN
  \E loc \in ResolveLocs : ResolveCall(loc)

ResolveSpec == ResolveInit /\ [][ResolveNext]_vars

\* a caller of VersionID.Increment on one name
VersionInit ==
  LET
    \* the characters of the names given to Increment, and the names
    NameChars == {"v", "0", "1", "9", "+", "-", "a"}
    Names == UNION {[1..n -> NameChars] : n \in 0..MaxNameLen}
  IN
  /\ cfg = [ObjectPathFunc |-> TRUE, FilePathFunc |-> TRUE]
  /\ InitDisk
  /\ InitSession
  /\ hist = InitHist
  /\ NoWalk
  /\ NoCp
  /\ mInv = StagedInventory
  /\ \E name \in Names : mCall = [NoCall EXCEPT !.version = name]

VersionNext == IncrementCall

VersionSpec == VersionInit /\ [][VersionNext]_vars

\* a crawlForRoot call from a/b/c with any type, over every tree of the
\* directories /, a and a/b: / is a directory; below a path that does not
\* exist nothing exists, and below one that cannot be entered every stat
\* fails
CrawlInit ==
  LET Ancestors == {<<>>, <<"a">>, <<"a", "b">>}
      Nodes == [stat : {"dir", "file", "enoent", "eio"},
                root : {"enoent", "regular", "dir", "eio"},
                object : {"enoent", "regular", "eio"}]
      Plain(n) == n.stat = "dir" \/ (n.root = "enoent" /\ n.object = "enoent")
      Trees == {tr \in [Ancestors -> {n \in Nodes : Plain(n)}] :
                  /\ tr[<<>>].stat = "dir"
                  /\ \A p \in Ancestors \ {<<>>} :
                       /\ tr[Dir(p)].stat = "enoent" => tr[p].stat = "enoent"
                       /\ tr[Dir(p)].stat \in {"file", "eio"} => tr[p].stat = "eio"}
  IN
  /\ cfg = [ObjectPathFunc |-> TRUE, FilePathFunc |-> TRUE]
  /\ InitDisk
  /\ InitSession
  /\ hist = InitHist
  /\ scope = [start |-> CHOOSE s \in WalkStarts : s.ref = <<RootNode>>,
              desired |-> [Type |-> TypeAny, Head |-> FALSE]]
  /\ walker = IdleWalker
  /\ walkHist = InitWalkHist
  /\ o2Inventory = "good"
  /\ \E tr \in Trees, t \in TypeAny..TypeRoot :
       crawl = [NoCrawl EXCEPT !.pc = "run", !.t = t, !.addr = CrawlStart, !.tree = tr]
  /\ NoCp
  /\ NoMeta

CrawlNext == crawlForRoot

\* a call that was made runs on until it returns
CrawlSpec == CrawlInit /\ [][CrawlNext]_vars /\ WF_vars(crawlForRoot)

(* ======================== properties of the walker ===================== *)

\* the entities the scope asks for: at or beneath the start entity, of the
\* desired type, and of the head version when only the head is desired
InScope ==
  LET
    \* the entities of the OCFL root the walks run over
    AllEntities ==
      {<<RootNode>>, IntermediateRef(<<"root", "i">>)}
      \cup {ObjectRef(p) : p \in ObjectRoots}
      \cup UNION {{VersionRef(p, v) : v \in DOMAIN readMetadata(p).inv.Versions} :
                    p \in ObjectRoots}
      \cup UNION {UNION {{FileRef(p, v, f) :
                            f \in FilesOf(readMetadata(p).inv, v,
                                          DOMAIN readMetadata(p).inv.Versions[v].State)} :
                           v \in DOMAIN readMetadata(p).inv.Versions} :
                    p \in ObjectRoots}
    IsPrefix(a, b) == Len(a) <= Len(b) /\ SubSeq(b, 1, Len(a)) = a
    IsSuffix(a, b) == Len(a) <= Len(b) /\ SubSeq(b, Len(b) - Len(a) + 1, Len(b)) = a
    \* the directory an entity lives in: its object's root, or its own address
    HomeAddr(e) ==
      IF \E i \in 1..Len(e) : e[i].Type = TypeObject
      THEN e[CHOOSE i \in 1..Len(e) : e[i].Type = TypeObject].Addr
      ELSE e[1].Addr
  IN
  LET ent == scope.start.ent
      Under(e) == \/ IsSuffix(ent, e)
                  \/ /\ ent[1].Type \in {TypeRoot, TypeIntermediate, TypeObject}
                     /\ IsPrefix(ent[1].Addr, HomeAddr(e))
      HeadOk(e) == \A i \in 1..Len(e) :
                     e[i].Type = TypeVersion =>
                       e[i].ID = readMetadata(HomeAddr(e)).inv.Head
  IN {e \in AllEntities :
        /\ Under(e)
        /\ scope.desired.Type \in {TypeAny, e[1].Type}
        /\ scope.desired.Head => HeadOk(e)}

\* C1: once the callback has returned an error the walk is over: the
\* callback is invoked for no further entity, and when some in-scope entity
\* had not been reached, the number of invocations stays below the number of
\* in-scope entities.
C1_WalkStopsAtError ==
  [][ /\ walkHist.cbErr # NoErr =>
           walkHist'.calls = walkHist.calls /\ walkHist'.emitted = walkHist.emitted
      /\ walkHist'.cbErr # NoErr =>
           /\ walker'.pc = "done"
           /\ InScope \ walkHist'.emitted # {} =>
                walkHist'.calls < Cardinality(InScope) ]_vars

C1_Witness ==
  /\ walker.pc = "done" /\ walkHist.cbErr # NoErr
  /\ walkHist.errType = TypeFile /\ walkHist.calls >= 4
  /\ InScope \ walkHist.emitted # {}

C7_FailedCopyCommitsNothing ==
  (cp.pc = "done" /\ cp.putFailed) =>
    /\ cp.err # "nil"
    /\ invFile[RootDir] = NoInv
    /\ ~marker

\* C37 as claimed: the concurrent copy always terminates: whatever opens
\* and Puts fail, the scanner eventually stops, doCopy returns, and every
\* goroutine of doCopy eventually returns, none left blocked on the work
\* queue.
C37_CopyAlwaysTerminates ==
  /\ (cp.pc = "scan") ~> (cp.pc \in {"commit", "done"})
  /\ (cp.pc = "scan") ~> (\A w \in Workers : cpW[w] \in {"nil", "err"})

(* ======================= properties of the session ===================== *)
\* the State of every version of an inventory
StatesOf(inv) == [v \in DOMAIN inv.Versions |-> inv.Versions[v].State]

\* the session's target version is older than its inventory's head
PastRevision == IntOf(sVersion).val < IntOf(sInv.Head).val

\* C3: for a newly initialized object the object-root marker appears only in
\* the last step of Commit, when both inventories (version directory and
\* object root) hold this session's complete inventory and Commit returns
\* nil; until a Commit of the session has succeeded the object directory has
\* no marker.
C3_MarkerLast ==
  [][ /\ (~marker /\ marker') =>
           /\ cpc = "writeNamaste" /\ sMode = "init"
           /\ invFile[RootDir] = InvBytes("complete", sInv)
           /\ invFile[sVersion] = InvBytes("complete", sInv)
           /\ hist'.commitRes = "ok"
      /\ (sOpen' /\ sMode' = "init" /\ ~hist'.committed) => ~marker' ]_vars

C3_Witness ==
  sOpen /\ sMode = "init" /\ marker /\ hist.committed /\ hist.putOk # {}

\* C4: no inventory.json at its final path, in the object root or in a
\* version directory, is ever partially written or empty.
C4_NoPartialInventory ==
  \A d \in Dirs : invFile[d].kind \in {"absent", "complete"}

\* C5 as claimed: in a session opened for reading (a given version or the
\* head), no step of a Put succeeds or changes the inventory or the content
\* on disk.
C5_ReadSessionRejectsPut ==
  [][(sOpen /\ sOpen' /\ sMode = "read" /\ wk' # wk) =>
       /\ hist'.putOk = {}
       /\ StatesOf(sInv') = StatesOf(sInv) /\ sInv'.Manifest = sInv.Manifest
       /\ content' = content /\ contentTmp' = contentTmp]_vars

\* C5 amended: in a session opened for reading on a version older than the
\* head, nothing a Put or a Commit does succeeds in writing: no Put returns
\* nil, no commitfunc is installed, and the versions' States, the Manifest
\* and the whole disk stay as they are.
C5_PastReadSessionIsReadOnly ==
  [][(sOpen /\ sOpen' /\ sMode = "read" /\ PastRevision) =>
       /\ hist'.putOk = {} /\ sCommitfunc' = "nil"
       /\ StatesOf(sInv') = StatesOf(sInv) /\ sInv'.Manifest = sInv.Manifest
       /\ diskVars' = diskVars]_vars

C5_Witness ==
  /\ sOpen /\ sMode = "read" /\ PastRevision /\ cfg.FilePathFunc
  /\ hist.lastPut = "rejected" /\ hist.commitRes = "ok"

\* C6: after the Puts of a session have returned and a Commit that followed
\* them has succeeded, the inventory.json in the object root is complete and
\* its head version's State maps the logical path of every Put that
\* returned nil to the digest of the content put.
C6_CommittedUnionOfPuts ==
  (sOpen /\ hist.committed /\ hist.commitRes = "ok") =>
    /\ invFile[RootDir].kind = "complete"
    /\ \A pr \in hist.putOkAtCommit :
         StateDigest(invFile[RootDir].inv, invFile[RootDir].inv.Head, pr[1])
           = DigestOf(pr[2])

C6_Witness ==
  /\ sOpen /\ hist.committed /\ hist.commitRes = "ok"
  /\ Cardinality(hist.putOkAtCommit) = 2

\* a Put of goroutine w returns an error after SafeWrite gave it a handle
PutFailsLate(w) ==
  /\ sOpen /\ sOpen'
  /\ wk[w].pc \in {"writing", "locked"} /\ wk'[w].pc = "idle"
  /\ hist'.lastPut \in {"copyerr", "regerr", "closeerr"}

\* after the step, the file this Put created or renamed is at its final path
LeftAtFinal(w) ==
  LET pp == filePaths(wk[w].lp)
  IN \/ wk[w].handle = "direct" /\ OwnsFinal(w, pp) /\ content'[pp] # NoFile
     \/ wk[w].handle = "atomic" /\ content'[pp] # content[pp]

\* C8: when a Put fails after it started writing (copy error, error on
\* Close, registration failure), no file of that Put, partial or complete,
\* is left at its final physical path.
C8_FailedPutLeavesNoFile ==
  [][\A w \in Workers : PutFailsLate(w) => ~LeftAtFinal(w)]_vars

\* the session's target version is numerically older than the head the
\* object's root inventory names
OlderThanHead ==
  /\ invFile[RootDir].kind = "complete"
  /\ IntOf(sVersion).val < IntOf(invFile[RootDir].inv.Head).val

\* C9: a Put on a session whose target version is numerically older than
\* the object's current head is rejected, writes no content and changes no
\* inventory entry.
C9_PastRevisionPutRejected ==
  [][(sOpen /\ OlderThanHead /\ hist'.puts = hist.puts + 1) =>
       /\ hist'.lastPut = "rejected"
       /\ content' = content /\ contentTmp' = contentTmp
       /\ sInv' = sInv /\ sCommitfunc' = sCommitfunc]_vars

\* the rejected Put targeted a version whose name sorts after the head's
\* name as a string (v9 against v10)
C9_Witness ==
  /\ sOpen /\ OlderThanHead /\ cfg.FilePathFunc /\ hist.lastPut = "rejected"
  /\ StrLess(sInv.Head, sVersion)

\* C10: Open with the new-version sentinel on an existing object sets Head
\* (and the session's target) to the version numbered one above the previous
\* head, adds exactly that version, and gives it the previous head's State.
C10_NewVersionCopiesHead ==
  [][(~sOpen /\ sOpen' /\ sMode' = "next") =>
       LET prev == invFile[RootDir].inv
       IN /\ IntOf(sInv'.Head).val = IntOf(prev.Head).val + 1
          /\ Valid(sInv'.Head) /\ sVersion' = sInv'.Head
          /\ DOMAIN sInv'.Versions = DOMAIN prev.Versions \cup {sInv'.Head}
          /\ sInv'.Versions[sInv'.Head].State = prev.Versions[prev.Head].State
          /\ \A v \in DOMAIN prev.Versions : sInv'.Versions[v] = prev.Versions[v]]_vars

C10_Witness ==
  /\ sOpen /\ sMode = "next" /\ hist.putOk = {} /\ sInv.Head # V1
  /\ sInv.Versions[sInv.Head].State # EmptyMap
  /\ sInv.Versions[sInv.Head].State = sInv.Versions[V1].State

\* no call on the session is in progress
SessionQuiet == cpc = "idle" /\ \A w \in Workers : wk[w].pc = "idle"

\* C11: once a Commit of the session has returned nil, no Put that is
\* called afterwards changes a content file, and no later Commit changes an
\* inventory.json or the object-root marker.
C11_CommittedIsTerminal ==
  [][ /\ (hist.committed /\ SessionQuiet) => content' = content
      /\ hist.committed => (invFile' = invFile /\ marker' = marker) ]_vars

\* the files an object persists: its marker, its inventories and their
\* digests, its content files, and the temporaries next to them
ObjectFiles == <<marker, content, contentTmp, invFile, invTmp, hashFile, hashTmp>>

\* C12 as claimed: on a driver that lacks a path function, nothing creates
\* or modifies an object.
C12_NoWriteWithoutPathFunc ==
  [][(~cfg.ObjectPathFunc \/ ~cfg.FilePathFunc) =>
       (objDir' = objDir /\ ObjectFiles' = ObjectFiles)]_vars

\* C12 amended: without a file path function no Put returns nil, and no
\* step changes a content file or the session inventory's States and
\* Manifest; without an object path function no Open creates an object
\* directory; without both, sessions still open for reading, and no file an
\* object persists is created or changed.
C12_PathFuncsGuardWrites ==
  [][ /\ ~cfg.FilePathFunc =>
           /\ hist'.putOk = {}
           /\ content' = content /\ contentTmp' = contentTmp
           /\ (sOpen /\ sOpen') =>
                (StatesOf(sInv') = StatesOf(sInv) /\ sInv'.Manifest = sInv.Manifest)
      /\ ~cfg.ObjectPathFunc => objDir' = objDir
      /\ (~cfg.ObjectPathFunc /\ ~cfg.FilePathFunc) => ObjectFiles' = ObjectFiles ]_vars

\* a session on a driver without path functions: it opened an existing
\* object, its Put was rejected and its Commit had nothing to write
C12_Witness ==
  /\ ~cfg.ObjectPathFunc /\ ~cfg.FilePathFunc
  /\ sOpen /\ sMode = "read" /\ hist.lastPut = "rejected" /\ hist.commitRes = "ok"

(* ================== properties of the inventory model ================== *)
\* the physical paths of a list that reside in version v or an earlier one
PathsUpTo(ppaths, v) == {p \in Range(ppaths) : IntOf(p.ver).val <= IntOf(v).val}

\* C13: for a digest with several physical paths, of which at least one
\* resides in version v or an earlier one, every File that Files(v) returns
\* for the digest has the path that resides in the highest-numbered version
\* not above v.
C13_FilesPicksNearestVersion ==
  (mCall.op = "Files" /\ mCall.ok) =>
    \A f \in mCall.files :
      LET ppaths == mInv.Manifest[f.digest]
          upTo == PathsUpTo(ppaths, mCall.version)
      IN (Len(ppaths) > 1 /\ upTo # {}) =>
           /\ f.PhysicalPath \in upTo
           /\ \A p \in upTo : IntOf(p.ver).val <= IntOf(f.PhysicalPath.ver).val

\* some logical path of the version is recorded under a digest that the
\* Manifest does not list, or lists with no physical path
Inconsistent(inv, version) ==
  \E d \in DOMAIN inv.Versions[version].State :
    /\ inv.Versions[version].State[d] # <<>>
    /\ d \notin DOMAIN inv.Manifest \/ Len(inv.Manifest[d]) = 0

\* C14: Files(versionName) fails, returning no File, when versionName is not
\* a version of the inventory; and it fails when a logical path of the
\* version has a digest without a Manifest entry or with an empty list of
\* physical paths, and then no File it returns is of such a digest.
C14_FilesErrors ==
  mCall.op = "Files" =>
    /\ mCall.version \notin DOMAIN mInv.Versions =>
         (~mCall.ok /\ mCall.err = "no version present" /\ mCall.files = {})
    /\ (mCall.version \in DOMAIN mInv.Versions /\ Inconsistent(mInv, mCall.version)) =>
         /\ ~mCall.ok
         /\ mCall.err \in {"no manifest entry", "no physical files"}
         /\ \A f \in mCall.files :
              f.digest \in DOMAIN mInv.Manifest /\ mInv.Manifest[f.digest] # <<>>

\* Files failed on a digest without physical paths after it had gathered
\* the File of another digest
C14_Witness ==
  /\ mCall.op = "Files" /\ ~mCall.ok /\ mCall.err = "no physical files"
  /\ mCall.files # {}

\* how often a path is listed in a digest -> paths map
RECURSIVE CountIn(_, _)
CountIn(l, path) ==
  IF l = <<>> THEN 0
  ELSE (IF Head(l) = path THEN 1 ELSE 0) + CountIn(Tail(l), path)

RECURSIVE Listings(_, _, _)
Listings(m, ds, path) ==
  IF ds = {} THEN 0
  ELSE LET d == CHOOSE x \in ds : TRUE
       IN CountIn(m[d], path) + Listings(m, ds \ {d}, path)

\* C15: an AddFile that repeats, with identical arguments, an AddFile that
\* has just succeeded succeeds too and leaves the head version's State and
\* the Manifest as the first call left them, the logical and the physical
\* path each listed once.
C15_AddFileIdempotent ==
  [][(mCall'.op = "AddFile" /\ mCall'.repeat) =>
       /\ mCall'.ok
       /\ mInv'.Versions[mInv'.Head].State = mInv.Versions[mInv.Head].State
       /\ mInv'.Manifest = mInv.Manifest
       /\ LET state == mInv'.Versions[mInv'.Head].State
          IN Listings(state, DOMAIN state, mCall'.lp) = 1
       /\ Listings(mInv'.Manifest, DOMAIN mInv'.Manifest, mCall'.pp) = 1]_vars

\* the repeated call came after a call that added both mappings
C15_Witness ==
  /\ mCall.op = "AddFile" /\ mCall.repeat /\ mCall.ok
  /\ mInv.Head = V1 /\ mCall.lp = "b" /\ mCall.digest = "d2"

\* a digest -> paths map lists the path under a digest other than digest
ListedElsewhere(m, path, digest) ==
  \E d \in DOMAIN m : d # digest /\ path \in Range(m[d])

\* C16: AddFile fails with a conflict error, and changes nothing, when the
\* head version's State lists the logical path under a different digest or
\* the Manifest lists the physical path under a different digest.
C16_AddFileConflict ==
  [][(mCall'.op = "AddFile"
      /\ \/ ListedElsewhere(mInv.Versions[mInv.Head].State, mCall'.lp, mCall'.digest)
         \/ ListedElsewhere(mInv.Manifest, mCall'.pp, mCall'.digest)) =>
       (~mCall'.ok /\ mCall'.err = "conflict" /\ mInv' = mInv)]_vars

\* the call failed on the physical path alone: the logical path was new
C16_Witness ==
  /\ mCall.op = "AddFile" /\ ~mCall.ok /\ mCall.err = "conflict"
  /\ ListedElsewhere(mInv.Manifest, mCall.pp, mCall.digest)
  /\ LET state == mInv.Versions[mInv.Head].State
     IN Listings(state, DOMAIN state, mCall.lp) = 0

(* ===================== properties of version names ===================== *)
\* a well-formed version name: 'v', then decimal digits that denote a
\* positive integer
WellFormed(name) ==
  /\ Len(name) >= 2 /\ name[1] = "v"
  /\ \A i \in 2..Len(name) : IsDigit(name[i])
  /\ \E i \in 2..Len(name) : name[i] # "0"

\* the integer a well-formed name denotes
NumberOf(name) == DigitsVal(Tail(name), 0)

\* C17: Increment on a well-formed name succeeds with the well-formed name
\* of the next integer; a zero-padded name keeps its length, an unpadded
\* name gets an unpadded successor; v9 gives v10 and v009 gives v010.
C17_IncrementKeepsPadding ==
  (mCall.op = "Increment" /\ WellFormed(mCall.version)) =>
    /\ mCall.ok /\ WellFormed(mCall.out)
    /\ NumberOf(mCall.out) = NumberOf(mCall.version) + 1
    /\ IF mCall.version[2] = "0" THEN Len(mCall.out) = Len(mCall.version)
       ELSE mCall.out[2] # "0"
    /\ mCall.version = <<"v", "9">> => mCall.out = <<"v", "1", "0">>
    /\ mCall.version = <<"v", "0", "0", "9">> => mCall.out = <<"v", "0", "1", "0">>

C17_Witness ==
  /\ mCall.op = "Increment" /\ mCall.ok
  /\ mCall.version = <<"v", "0", "0", "9">> /\ mCall.out = <<"v", "0", "1", "0">>

\* C18: Increment succeeds for the well-formed names and for no other name.
C18_IncrementRejectsMalformed ==
  mCall.op = "Increment" => (mCall.ok <=> WellFormed(mCall.version))

\* a struct whose strings are UTF-8 and whose times JSON can express
ValidStruct(x) ==
  /\ Marshalable(x)
  /\ \A v \in DOMAIN x.Versions.m : x.Versions.m[v].User.Name \notin InvalidUTF8

\* equality of two Inventory structs as a caller sees it: the exported
\* fields are equal, times being equal when they are the same instant
SemanticallyEqual(x, y) ==
  /\ x.ID = y.ID /\ x.Type = y.Type /\ x.DigestAlgorithm = y.DigestAlgorithm
  /\ x.Head = y.Head /\ x.Manifest = y.Manifest /\ x.Fixity = y.Fixity
  /\ x.Versions.isNil = y.Versions.isNil
  /\ DOMAIN x.Versions.m = DOMAIN y.Versions.m
  /\ \A v \in DOMAIN x.Versions.m :
       LET a == x.Versions.m[v]
           b == y.Versions.m[v]
       IN /\ a.Created.instant = b.Created.instant
          /\ a.Message = b.Message /\ a.User = b.User /\ a.State = b.State

\* C19: for every valid inventory, Serialize succeeds, Parse of what it
\* wrote succeeds, and the parsed inventory is semantically equal to the
\* serialized one.
C19_ParseSerializeRoundTrip ==
  (mCall.op = "RoundTrip" /\ ValidStruct(mCall.given)) =>
    (mCall.ok /\ SemanticallyEqual(mCall.parsed, mCall.given))

\* the round trip of an inventory with two physical paths for a digest and
\* two fixity algorithms, whose struct came back different (the index and
\* the clock reading are gone) though semantically equal
C19_Witness ==
  /\ mCall.op = "RoundTrip" /\ mCall.ok /\ ValidStruct(mCall.given)
  /\ Cardinality(DOMAIN mCall.given.Fixity.m) = 2
  /\ \E d \in DOMAIN mCall.given.Manifest.m : Len(mCall.given.Manifest.m[d]) = 2
  /\ mCall.parsed # mCall.given


(* ---------------------------------- C20 -------------------------------- *)
\* the location is a file below the content directory of a version
IsContentFile(loc) ==
  \E i \in DOMAIN loc : loc[i] = "content" /\ i < Len(loc) /\ Len(loc) > Len(Obj1Addr)

\* the (version, logical path) pairs whose State records the logical path
\* under a digest whose Manifest entry lists the physical path
StatePairs(inv, loc) ==
  LET rel == SubSeq(loc, Len(Obj1Addr) + 1, Len(loc))
  IN {pair \in (DOMAIN inv.Versions) \X LPaths :
        \E d \in DOMAIN inv.Manifest :
          /\ \E i \in DOMAIN inv.Manifest[d] : RelPath(inv.Manifest[d][i]) = rel
          /\ d \in DOMAIN inv.Versions[pair[1]].State
          /\ pair[2] \in Range(inv.Versions[pair[1]].State[d])}

\* C20: resolving a physical content file yields exactly one File entity
\* for each (version, logical path) pair such that the version's State
\* records that logical path under the digest the Manifest assigns to the
\* physical file, and yields no other entity.
C20_ResolveContentFile ==
  (mCall.op = "resolve" /\ IsContentFile(mCall.loc)) =>
    /\ mCall.ok
    /\ \A e \in mCall.files :
         /\ e.n = 1
         /\ Len(e.ref) = 3
         /\ e.ref[1].Type = TypeFile /\ e.ref[1].Addr = mCall.loc
         /\ e.ref[2].Type = TypeVersion
         /\ e.ref[3].Type = TypeObject /\ e.ref[3].Addr = Obj1Addr
         /\ <<e.ref[2].ID, e.ref[1].ID[1]>> \in StatePairs(mInv, mCall.loc)
    /\ \A pair \in StatePairs(mInv, mCall.loc) :
         Cardinality({e \in mCall.files :
                        e.ref[2].ID = pair[1] /\ e.ref[1].ID = <<pair[2]>>}) = 1

\* a file named twice in v1 and carried into v2 and v3 was resolved into
\* four File entities
C20_Witness ==
  /\ mCall.op = "resolve" /\ mCall.ok
  /\ mCall.loc = Obj1Addr \o V1 \o <<"content", "a">>
  /\ mInv.Versions[V1].State = ("d1" :> <<"a", "b">>)
  /\ mInv.Versions[V2].State = ("d1" :> <<"a">>)
  /\ mInv.Versions[V3].State = ("d1" :> <<"a">>)
  /\ Cardinality(mCall.files) = 4
  /\ \A e \in mCall.files : e.n = 1 /\ e.ref[1].Type = TypeFile


(* ---------------------------------- C21 -------------------------------- *)
\* the walk starts at an Object entity and asks for its Version entities
ObjectToVersions ==
  /\ scope.start.ref[1].Type = TypeObject
  /\ scope.desired = [Type |-> TypeVersion, Head |-> FALSE]

\* the Version entities of the object the walk starts at
VersionsOfStart ==
  {VersionRef(scope.start.ent[1].Addr, v) :
     v \in DOMAIN readMetadata(scope.start.ent[1].Addr).inv.Versions}

\* C21: a walk that starts at an Object entity and is restricted to type
\* Version emits exactly one entity per version of that object, every
\* emitted entity has type Version and the object as its Parent, and no
\* entity of another object or type is emitted.
C21_ObjectWalkEmitsItsVersions ==
  ObjectToVersions =>
    /\ walkHist.emitted \subseteq VersionsOfStart
    /\ walkHist.calls = Cardinality(walkHist.emitted)
    /\ \A e \in walkHist.emitted :
         /\ e[1].Type = TypeVersion
         /\ e[2].Type = TypeObject
         /\ e[2].ID = scope.start.ref[1].ID
         /\ e[2].Addr = scope.start.ent[1].Addr
    /\ (walker.pc = "done" /\ walkHist.result = NoErr) =>
         walkHist.emitted = VersionsOfStart

\* the walk from object o1 has ended with one Version entity for each of
\* v1 and v2
C21_Witness ==
  /\ ObjectToVersions
  /\ walker.pc = "done" /\ walkHist.result = NoErr
  /\ walkHist.calls = 2
  /\ {e[1].ID : e \in walkHist.emitted} = {V1, V2}
  /\ scope.start.ref[1].Addr = <<>>


(* ---------------------------------- C22 -------------------------------- *)
\* the walk starts at object o1 (v1 = {a}, v2 = {a, b}, head v2) and asks
\* for its File entities
ObjectToFiles ==
  /\ scope.start.ref[1].Type = TypeObject
  /\ scope.desired.Type = TypeFile

WalkedO2 ==
  /\ walker.pc = "done"
  /\ walkHist.cbErr = NoErr
  /\ scope.start.ref[1].Type = TypeRoot \/ scope.start.ref[1].Addr = <<>>

\* C23: a corrupt or missing inventory, or an inventory whose State and
\* Manifest are inconsistent, met while the walker enters manifest mode
\* for an object makes the walk return an error: the object's versions and
\* files are never skipped with a successful walk result.
C23_BadInventoryFailsWalk ==
  (o2Inventory # "good" /\ WalkedO2) => walkHist.result # NoErr

\* what holds: an inventory.json that is missing or is not JSON makes the
\* walk return the error of readMetadata
MissingOrCorruptFailsWalk ==
  (o2Inventory \in {"missing", "corrupt"} /\ WalkedO2) =>
    /\ walkHist.result # NoErr
    /\ Cause(walkHist.result) \in {"no such file", "invalid character"}
    /\ \A e \in walkHist.emitted : \A i \in 1..Len(e) : e[i].Addr # Obj2Addr


(* ================== properties of the durable-write handle ============= *)
\* what a reader of a file sees: whether it exists, and its bytes
Shows(file) == [data |-> file.data, st |-> file.st]

\* in the next state w holds an open handle and no other goroutine has
\* begun a write
SoleWriter(w) == \A o \in Workers \ {w} : wk'[o].pc = "idle"

\* the visibility C24 asks of the handles in hs ("atomic", "direct")
VisibleAtCommit(hs) ==
  \A w \in Workers :
    (SoleWriter(w) /\ wk'[w].handle \in hs) =>
      LET pp == filePaths("a")
          file == IF wk[w].handle = "direct" THEN content[pp] ELSE contentTmp[pp]
      IN /\ wk'[w].pc = "writing" => Shows(content'[pp]) = Shows(wk'[w].before)
         /\ ( /\ wk[w].pc = "writing" /\ wk'[w].pc = "closed"
              /\ mCall'.op = "Close" /\ mCall'.ok
              /\ file.st = "complete" ) =>
              Shows(content'[pp]) = [data |-> wk[w].c, st |-> "complete"]

\* C24: content written through the durable-write handle becomes visible
\* at the destination path atomically at Close: before it the destination
\* shows only its previous content or absence, after it the complete new
\* content, never a prefix of it.
C24_VisibleAtomicallyAtClose == [][VisibleAtCommit({"atomic", "direct"})]_vars

\* what holds: the handles AtomicWrite returns make the content visible at
\* Close
AtomicHandleVisibleAtClose == [][VisibleAtCommit({"atomic"})]_vars


Holders ==
  {w \in Workers : wk[w].pc = "locked"} \cup (IF cpc # "idle" THEN {"commit"} ELSE {})

\* a step of Put that reads the session's inventory in prepareWrite: the
\* first Put of a session without commitfunc compares the version with
\* s.inventory.Head
PrepareWriteReads ==
  hist'.puts = hist.puts + 1 /\ cfg.FilePathFunc /\ sCommitfunc = "nil"

\* C27 as claimed: the bookkeeping step of Put and the stamping of Commit
\* exclude each other, every change of the session's inventory is made by
\* the goroutine that holds the lock, and no goroutine reads the inventory
\* while another one is in its bookkeeping step or in Commit.
C27_InventoryAccessExclusive ==
  [][/\ Cardinality(Holders) <= 1
     /\ (sOpen /\ sOpen' /\ sInv' # sInv) => mutex # "free" /\ Holders = {mutex}
     /\ PrepareWriteReads => Holders = {}
    ]_vars

\* C27 amended: the bookkeeping step of Put and the stamping of Commit
\* exclude each other, and every change of the session's inventory is made
\* by the goroutine that holds the lock, while the content streaming of
\* Puts overlaps with the streaming, the bookkeeping and the Commit of other
\* goroutines. The read of s.inventory.Head in prepareWrite, at the start
\* of Put, is made outside the lock.
C27_BookkeepingExclusive ==
  [][/\ Cardinality(Holders) <= 1
     /\ (sOpen /\ sOpen' /\ sInv' # sInv) => mutex # "free" /\ Holders = {mutex}
    ]_vars

\* one Put is in its bookkeeping step while another streams its content
C27_Witness ==
  /\ wk["w1"].pc = "locked" /\ mutex = "w1"
  /\ wk["w2"].pc = "writing"


\* the digest the inventory committed before the session opened records
\* for a logical path in its head version ("none" if absent)
CarriedForward(lp) ==
  IF hist.rootAtOpen.kind = "complete"
  THEN StateDigest(hist.rootAtOpen.inv, hist.rootAtOpen.inv.Head, lp) ELSE "none"

C29_InventoryPersistedAtCommit ==
  [][/\ <<invFile, invTmp, hashFile, hashTmp, marker>>' # <<invFile, invTmp, hashFile, hashTmp, marker>>
          => cpc \notin {"idle", "locked"} /\ mutex = "commit"
     /\ ( \/ hist'.sessions # hist.sessions
          \/ hist'.puts # hist.puts \/ wk' # wk
          \/ sOpen /\ ~sOpen' )
          => UNCHANGED <<invFile, invTmp, hashFile, hashTmp, marker>>
     /\ (sOpen /\ hist.commitRes = "none") =>
          /\ invFile[RootDir] = hist.rootAtOpen
          /\ ~sOpen' => invFile'[RootDir] = hist.rootAtOpen
    ]_vars

\* a session on the new version v2 of an object committed at v1 put a file
\* and was abandoned: the file is on disk, the inventories are those of v1
C29_Witness ==
  /\ ~sOpen /\ hist.sessions = 2
  /\ content[[ver |-> V2, lp |-> "a"]] # NoFile
  /\ invFile[RootDir].kind = "complete" /\ invFile[RootDir].inv.Head = V1
  /\ invFile[V2] = NoInv /\ invTmp[V2] = NoInv /\ hashFile[V2] = NoInv


\* Head names a version of the inventory, and no version of the inventory
\* has a higher number
HeadIsHighest(inv) ==
  /\ inv.Head \in DOMAIN inv.Versions
  /\ \A v \in DOMAIN inv.Versions :
       v # inv.Head => IntOf(v).val < IntOf(inv.Head).val

\* C30: in the inventory of every session (made by NewInventory or read
\* from disk, staged by setupVersion, changed by AddFile) and in every
\* inventory.json a Commit wrote completely, Head names a version present
\* in Versions, and that version has the numerically highest name.
C30_HeadIsHighestVersion ==
  /\ sOpen => HeadIsHighest(sInv)
  /\ \A d \in Dirs : invFile[d].kind = "complete" => HeadIsHighest(invFile[d].inv)

\* a session staged v2 on top of v1, registered a file and committed
C30_Witness ==
  /\ sOpen /\ sMode = "next" /\ hist.committed /\ hist.putOk # {}
  /\ sInv.Head = V2 /\ DOMAIN sInv.Versions = {V1, V2}
  /\ invFile[RootDir] = InvBytes("complete", sInv)


(* ------------------ invariants of the session's inventories ------------ *)
\* the inventories the session operations have produced: the one the open
\* session holds, and those of the inventory.json files written completely
SessionInventories ==
  (IF sOpen THEN {sInv} ELSE {}) \cup
  {invFile[d].inv : d \in {x \in Dirs : invFile[x].kind = "complete"}}

\* the content of every logical path of every version's State is held by
\* a physical path of the Manifest, and no digest of the Manifest is
\* without paths
StateInManifest(inv) ==
  /\ \A v \in DOMAIN inv.Versions : \A d \in DOMAIN inv.Versions[v].State :
       inv.Versions[v].State[d] # <<>> =>
         d \in DOMAIN inv.Manifest /\ inv.Manifest[d] # <<>>
  /\ \A d \in DOMAIN inv.Manifest : inv.Manifest[d] # <<>>

\* C31: in every inventory reachable through the session operations, the
\* content of every path of every version's State is listed with a path
\* under its digest in the Manifest, and no digest of the Manifest has zero
\* paths.
C31_StateCoveredByManifest == \A inv \in SessionInventories : StateInManifest(inv)

\* a session on v2 holds an inventory whose Manifest lists two digests, one
\* of them put in v1 and carried forward
C31_Witness ==
  /\ sOpen /\ sMode = "next" /\ sInv.Head = V2
  /\ DOMAIN sInv.Manifest = Digests
  /\ DOMAIN sInv.Versions[V1].State # {}
  /\ DOMAIN sInv.Versions[V2].State = Digests


\* the digests under which a version's State lists a logical path
DigestsOf(inv, v, lp) ==
  {d \in DOMAIN inv.Versions[v].State : lp \in Range(inv.Versions[v].State[d])}

\* C32: in every inventory reachable through AddFile and the staging of
\* new versions, no logical path of a version's State is listed under two
\* digests.
C32_OneDigestPerLogicalPath ==
  \A inv \in SessionInventories : \A v \in DOMAIN inv.Versions : \A lp \in LPaths :
    Cardinality(DigestsOf(inv, v, lp)) <= 1

\* a session on v2 was refused a Put of other content on a path carried
\* forward from v1: the path is still under the one digest of v1
C32_Witness ==
  /\ sOpen /\ sMode = "next" /\ sInv.Head = V2
  /\ hist.lastPut = "regerr"
  /\ \E lp \in LPaths :
       /\ Cardinality(DigestsOf(sInv, V1, lp)) = 1
       /\ DigestsOf(sInv, V2, lp) = DigestsOf(sInv, V1, lp)


(* ================ properties of isRoot and crawlForRoot ================ *)
\* the marker files isRoot(path, t) looks for
MarkersOf(path, t) ==
  LET node == crawl.tree[path]
  IN IF t = TypeRoot THEN {node.root}
     ELSE IF t = TypeObject THEN {node.object}
     ELSE IF t = TypeAny THEN {node.root, node.object} ELSE {}

\* the path, or each marker file asked for in it, is simply not there
NotPresent(path, t) ==
  \/ crawl.tree[path].stat = "enoent"
  \/ crawl.tree[path].stat = "dir" /\ MarkersOf(path, t) = {"enoent"}

\* a stat of the path, or of a marker file asked for in it, fails with
\* something other than "does not exist"
OtherFailure(path, t) ==
  \/ crawl.tree[path].stat = "eio"
  \/ /\ crawl.tree[path].stat = "dir" /\ "eio" \in MarkersOf(path, t)
     /\ "regular" \notin MarkersOf(path, t)

\* C33: isRoot returns (false, no error) when the path or its marker file
\* is not present, and an error for every other failure of the filesystem.
C33_IsRootTellsAbsenceFromFailure ==
  \A i \in DOMAIN crawl.calls :
    LET c == crawl.calls[i]
    IN /\ NotPresent(c.path, crawl.t) => ~c.res.found /\ c.res.err = NoErr
       /\ OtherFailure(c.path, crawl.t) => c.res.err # NoErr

\* what holds: on a directory that exists, asked for one marker, isRoot
\* tells a missing marker (false, no error) from a failing stat (an error)
IsRootOfOneTypeOnDirectory ==
  \A i \in DOMAIN crawl.calls :
    LET c == crawl.calls[i]
    IN (crawl.t \in {TypeRoot, TypeObject} /\ crawl.tree[c.path].stat # "enoent") =>
         /\ NotPresent(c.path, crawl.t) => ~c.res.found /\ c.res.err = NoErr
         /\ OtherFailure(c.path, crawl.t) => c.res.err # NoErr

\* the directory carries a marker of the type: a regular file
Marked(path, t) ==
  crawl.tree[path].stat = "dir" /\ "regular" \in MarkersOf(path, t)

\* the ancestors of the directory the crawl started from
AncestorsOfStart == {SubSeq(CrawlStart, 1, n) : n \in 0..(Len(CrawlStart) - 1)}

\* how often the crawl has called isRoot on a directory
TimesTested(path) == Cardinality({i \in DOMAIN crawl.calls : crawl.calls[i].path = path})

\* the crawl returned the nearest ancestor that carries a marker of the
\* type, or the no-root-found error when no ancestor carries one
NearestOrNoRoot ==
  LET marked == {p \in AncestorsOfStart : Marked(p, crawl.t)}
  IN IF marked = {}
     THEN crawl.ref = <<>> /\ Cause(crawl.err) = "no ocfl root found crawling up to /"
          /\ crawl.err.wraps = <<>>
     ELSE /\ crawl.err = NoErr /\ Len(crawl.ref) = 1
          /\ crawl.ref[1].Addr \in marked
          /\ \A p \in marked : Len(p) <= Len(crawl.ref[1].Addr)

\* C34 as claimed: crawlForRoot terminates, tests each ancestor directory
\* at most once, and returns the nearest ancestor with a marker of the
\* desired type, or the no-root-found error when there is none.
C34_CrawlTestsOnceAndFindsNearest ==
  /\ (crawl.pc = "run") ~> (crawl.pc = "done")
  /\ [](\A p \in AncestorsOfStart : TimesTested(p) <= 1)
  /\ [](crawl.pc = "done" => NearestOrNoRoot)

\* C34 amended: crawlForRoot terminates after at most one isRoot call per
\* ancestor and one more on the filesystem root; when no isRoot call fails
\* it returns the nearest ancestor with a marker of the desired type, or
\* the no-root-found error after testing the filesystem root a second
\* time; when an isRoot call fails (an ancestor does not exist or cannot
\* be read) it returns that error at once.
C34_CrawlTerminates ==
  /\ (crawl.pc = "run") ~> (crawl.pc = "done")
  /\ [](\A p \in AncestorsOfStart : TimesTested(p) <= (IF p = <<>> THEN 2 ELSE 1))
  /\ [](crawl.pc = "done" =>
          LET last == crawl.calls[Len(crawl.calls)]
          IN IF last.res.err # NoErr
             THEN crawl.ref = <<>> /\ crawl.err = Wrap(last.res.err, "error detecting OCFL root")
             ELSE /\ NearestOrNoRoot
                  /\ crawl.ref = <<>> => TimesTested(<<>>) = 2)

\* the crawl passed a/b, which has no marker, and returned a, which
\* carries the object marker, for the wildcard type
C34_Witness ==
  /\ crawl.pc = "done" /\ crawl.t = TypeAny /\ crawl.err = NoErr
  /\ Len(crawl.calls) = 2
  /\ crawl.ref = <<Node(TypeObject, <<>>, <<"a">>)>>
  /\ Marked(<<>>, TypeRoot)


(* ------------------ properties of directory-mode descent --------------- *)
\* the path lies beneath an object root
BeneathObject(path) ==
  \E r \in ObjectRoots : Len(r) < Len(path) /\ SubSeq(path, 1, Len(r)) = r

\* C35: once directory-mode traversal has reached an object root, no
\* directory or file beneath it is ever handed to the directory callback,
\* and no Intermediate entity is emitted for an object root or for a path
\* inside an object.
C35_NoDescentBelowObjectRoot ==
  /\ \A i \in DOMAIN walker.stack : \A p \in walker.stack[i] : ~BeneathObject(p)
  /\ \A e \in walkHist.emitted :
       e[1].Type = TypeIntermediate =>
         ~BeneathObject(e[1].Addr) /\ e[1].Addr \notin ObjectRoots

\* a walk from the OCFL root for every type completed: it emitted the
\* intermediate directory i, switched to manifest mode for both objects,
\* whose directories hold version directories, and emitted their versions
C35_Witness ==
  /\ walker.pc = "done" /\ walkHist.result = NoErr
  /\ scope.start.ref = <<RootNode>> /\ scope.desired.Type = TypeAny
  /\ IntermediateRef(<<"root", "i">>) \in walkHist.emitted
  /\ \A r \in ObjectRoots :
       /\ ObjectRef(r) \in walkHist.emitted
       /\ VersionRef(r, V1) \in walkHist.emitted
       /\ \E n \in FsNodes : n.parent = r /\ n.kind = "dir"


\* C36 as claimed: whenever Files(v) returns without error, the
\* PhysicalPath of every File it returns is not empty and is one of the
\* paths the Manifest lists for the File's digest, also when the digest has
\* two or more physical paths of which none resides in v or an earlier
\* version.
C36_FilesReturnsManifestPath ==
  (mCall.op = "Files" /\ mCall.ok) =>
    \A f \in mCall.files :
      /\ f.PhysicalPath # EmptyPath
      /\ f.PhysicalPath \in Range(mInv.Manifest[f.digest])

\* C38: an AddFile call that fails with a conflict leaves the inventory as
\* it was: the head version's State and the Manifest hold the same entries
\* in the same order, and so does everything else in the inventory.
C38_ConflictLeavesInventoryUnchanged ==
  [][(mCall'.op = "AddFile" /\ ~mCall'.ok /\ mCall'.err = "conflict") =>
       mInv' = mInv]_vars

\* an AddFile failed on its physical path, which the Manifest lists under
\* another digest, while its logical path was new to the head version
C38_Witness ==
  /\ mCall.op = "AddFile" /\ ~mCall.ok /\ mCall.err = "conflict"
  /\ LET state == mInv.Versions[mInv.Head].State
     IN /\ \A d \in DOMAIN state : mCall.lp \notin Range(state[d])
        /\ \E d \in DOMAIN state : state[d] # <<>>
  /\ \E d \in DOMAIN mInv.Manifest :
       d # mCall.digest /\ mCall.pp \in Range(mInv.Manifest[d])


\* C39: in a session that staged a new version, whatever Puts and Commits
\* it has made, every version the object had when the session opened has,
\* in the session's inventory and in the committed inventory, the State it
\* had then.
C39_EarlierVersionsUntouched ==
  (sOpen /\ sMode = "next") =>
    LET old == StatesOf(hist.rootAtOpen.inv)
    IN /\ \A v \in DOMAIN old :
            v \in DOMAIN sInv.Versions /\ sInv.Versions[v].State = old[v]
       /\ invFile[RootDir].kind = "complete" =>
            \A v \in DOMAIN old :
              /\ v \in DOMAIN invFile[RootDir].inv.Versions
              /\ invFile[RootDir].inv.Versions[v].State = old[v]

\* a session staged v2 on an object whose v1 holds a file, put a file that
\* v1 does not have and committed: the committed v2 differs from v1
C39_Witness ==
  /\ sOpen /\ sMode = "next" /\ sVersion = V2 /\ hist.committed
  /\ hist.putOk # {}
  /\ invFile[RootDir].kind = "complete"
  /\ invFile[RootDir].inv.Head = V2
  /\ StatesOf(hist.rootAtOpen.inv)[V1] # EmptyMap
  /\ StatesOf(invFile[RootDir].inv)[V2] # StatesOf(invFile[RootDir].inv)[V1]


\* C40 as claimed: a walk that completes without error has invoked the
\* callback exactly once for each in-scope entity of the desired type and
\* for no other entity; with the wildcard type the number of invocations
\* is the number of entities under the start.
C40_WalkEmitsExactlyInScope ==
  (walker.pc = "done" /\ walkHist.result = NoErr) =>
    /\ walkHist.emitted = InScope
    /\ walkHist.calls = Cardinality(InScope)

====
